---- MODULE Spec2Model ----
(***************************************************************************)
(* Model of the landmark heatmap pipeline of cephalometric_mvp:            *)
(*   - CephalometricDataset._apply_augmentation  (app/ml/train.py)         *)
(*   - split_annotations (app/ml/train.py) and DatasetExporter.split_      *)
(*     dataset / export_dataset (app/services/dataset_export.py)           *)
(*   - CephalometricDataset._generate_heatmap, the argmax decoders of      *)
(*     evaluate_model and LandmarkPredictor.heatmap_to_coordinates         *)
(*   - load_annotations and the metrics of evaluate_model (app/ml/train.py)*)
(*   - TrainingLogger.log_epoch and the loop of train_model                *)
(*   - create_annotation and create_bulk_annotations                       *)
(*     (app/api/endpoints/annotations.py) over the sessions of get_db      *)
(* and of the speaker editor of youtube_downloader:                        *)
(*   - the diarization job of services/diarization_service.py              *)
(*   - the requests of routers/segments.py and routers/speakers.py         *)
(*                                                                         *)
(* Numbers.  In the pipeline Python floats are modelled in fixed point:    *)
(* landmark coordinates, scale factors and trigonometric values are in     *)
(* thousandths (Milli); ratios and probabilities are in percent; heatmap   *)
(* values are in units of 1/FixOne, and NanCell stands for nan.  Integer   *)
(* division \div rounds towards minus infinity, as Python's // does.       *)
(* Where the rounding of a single float operation matters (the flip and    *)
(* the rotation of one landmark) floats are a binary format with           *)
(* SignificandBits significant bits, rounded to nearest, ties to even.     *)
(* The metrics are exact quotients Rat(num, den), with 0/0 for nan.        *)
(*                                                                         *)
(* Randomness.  The code draws from Python's process-wide `random` module. *)
(* Its generator is modelled by a full-period linear congruential          *)
(* generator over RngMod states: what matters for the properties is that   *)
(* it is ONE shared state, that seed() resets it as a function of the seed *)
(* and that every draw advances it.                                        *)
(***************************************************************************)
EXTENDS Integers, Sequences, FiniteSets, TLC

VARIABLES
    rng,      \* state of the process-wide `random` generator
    nprng,    \* state of the process-wide numpy generator (np.random.seed)
    th,       \* per thread: the invocation it is executing and its locals
    cpc,      \* codec: "idle", "logits", "heatmap" or "decoded"
    enc,      \* codec: the arguments of the last _generate_heatmap, or NoEnc
    logits,   \* codec: the raw output of the network for one landmark
    heatmap,  \* codec: the grid the decoder scans
    decoded,  \* codec: what the decoder returned
    fs,       \* one landmark going through single steps, in floating point
    ev,       \* evaluate_model: its position and its locals
    tl,       \* TrainingLogger.metrics and the locals of the training loop
    adb,      \* cephalometric_mvp: the annotations table and the open sessions
    job,      \* youtube_downloader: the diarization job and its project row
    ydb       \* youtube_downloader: the speakers and segments tables

pipeVars == <<rng, nprng, th>>

codecVars == <<cpc, enc, logits, heatmap, decoded>>

stepVars == <<fs>>

evalVars == <<ev>>

logVars == <<tl>>

annVars == <<adb>>

ytVars == <<job, ydb>>

vars ==
    <<rng, nprng, th, cpc, enc, logits, heatmap, decoded, fs, ev, tl, adb,
      job, ydb>>

\* what the actions of one component leave alone
notPipe == <<codecVars, stepVars, evalVars, logVars, annVars, ytVars>>

notCodec == <<pipeVars, stepVars, evalVars, logVars, annVars, ytVars>>

notSteps == <<pipeVars, codecVars, evalVars, logVars, annVars, ytVars>>

notEval == <<pipeVars, codecVars, stepVars, logVars, annVars, ytVars>>

notLog == <<pipeVars, codecVars, stepVars, evalVars, annVars, ytVars>>

notAnn == <<pipeVars, codecVars, stepVars, evalVars, logVars, ytVars>>

notYt == <<pipeVars, codecVars, stepVars, evalVars, logVars, annVars>>

----------------------------------------------------------------------------
(* Bounds of the model *)

\* largest number of items handed to a split
MaxItems == 10

\* fixed-point unit of coordinates, scale factors, sines and cosines
Milli == 10^3

\* number of states of the modelled generator
RngMod == 2^4

Threads == {1, 2}

----------------------------------------------------------------------------
(* Program constants *)

TRAIN_SPLIT == 70
VAL_SPLIT == 15
RANDOM_SEED == 42

\* export_dataset splits only when len(images) >= 3
MinSplitImages == 3

\* AUGMENTATION_CONFIG; ranges in thousandths, rotation in degrees, flip in percent
AUGMENTATION_CONFIG ==
    [rotation_range |-> 10,
     scale_range |-> <<900, 1100>>,
     brightness_range |-> <<850, 1150>>,
     contrast_range |-> <<850, 1150>>,
     horizontal_flip_prob |-> 50]

\* cfg.get(key, default): a configuration that leaves every key out
EmptyConfig ==
    [rotation_range |-> 0,
     scale_range |-> <<1000, 1000>>,
     brightness_range |-> <<1000, 1000>>,
     contrast_range |-> <<1000, 1000>>,
     horizontal_flip_prob |-> 0]

----------------------------------------------------------------------------
(* Python builtins *)

\* min(a, b): b when b < a, else a
PyMin(a, b) == IF b < a THEN b ELSE a

\* max(a, b): b when b > a, else a
PyMax(a, b) == IF b > a THEN b ELSE a

\* s[a:b] for 0 <= a, 0 <= b: indices are cut to len(s)
PySlice(s, a, b) == SubSeq(s, PyMin(a, Len(s)) + 1, PyMin(b, Len(s)))

\* int(n * ratio) for n >= 0 and a ratio given in percent
IntOfProduct(n, pct) == (n * pct) \div 100

SeqToSet(s) == {s[i] : i \in 1..Len(s)}

----------------------------------------------------------------------------
(* The `random` module *)

\* one step of the generator; the new state is also the value drawn,
\* standing for the float  state / RngMod  in [0, 1)
NextRng(s) == (5 * s + 3) % RngMod

\* random.seed(seed): the state becomes a function of the seed alone
SeedState(seed) == seed % RngMod

\* random.uniform(a, b) = a + (b - a) * random(), for the drawn value u
Uniform(a, b, u) == a + ((b - a) * u) \div RngMod

\* random.random() < prob, prob in percent
BelowProb(u, prob) == u * 100 < prob * RngMod

\* _randbelow(k) for the drawn value u: an index in 0..k-1
RandBelow(k, u) == (u * k) \div RngMod

Swap(x, a, b) == [x EXCEPT ![a] = x[b], ![b] = x[a]]

\* random.shuffle(x): for i in reversed(range(1, len(x))):
\*                        j = randbelow(i + 1); x[i], x[j] = x[j], x[i]
\* i is the 0-based index; returns the shuffled list and the generator state
RECURSIVE ShuffleFrom(_, _, _)
ShuffleFrom(x, i, s) ==
    IF i < 1 THEN [keys |-> x, rng |-> s]
    ELSE LET u == NextRng(s)
             j == RandBelow(i + 1, u)
         IN ShuffleFrom(Swap(x, i + 1, j + 1), i - 1, u)

Shuffle(x, s) == ShuffleFrom(x, Len(x) - 1, s)

----------------------------------------------------------------------------
(* split_annotations / DatasetExporter.split_dataset *)

\* list(annotations.keys()) / images: n distinct items in input order
Keys(n) == [i \in 1..n |-> i]

NTrain(n, tr) == IntOfProduct(n, tr)

\* variant: the validation count rounded to nearest instead of truncated
NValRounded(n, vr) == (n * vr + 50) \div 100

NVal(n, vr) == IntOfProduct(n, vr)

TrainKeys(keys, tr, vr) == PySlice(keys, 0, NTrain(Len(keys), tr))

ValKeys(keys, tr, vr) ==
    PySlice(keys, NTrain(Len(keys), tr),
            NTrain(Len(keys), tr) + NVal(Len(keys), vr))

\* variant: the test slice starts where the validation slice starts
TestKeysOverlap(keys, tr, vr) ==
    PySlice(keys, NTrain(Len(keys), tr), Len(keys))

TestKeys(keys, tr, vr) ==
    PySlice(keys, NTrain(Len(keys), tr) + NVal(Len(keys), vr), Len(keys))

NoResult == [kind |-> "none", train |-> <<>>, val |-> <<>>, test |-> <<>>, all |-> <<>>]

\* the three slices of the shuffled list
SplitResult(shuffled, tr, vr) ==
    [kind |-> "split",
     train |-> TrainKeys(shuffled, tr, vr),
     val |-> ValKeys(shuffled, tr, vr),
     test |-> TestKeys(shuffled, tr, vr),
     all |-> <<>>]

----------------------------------------------------------------------------
(* CephalometricDataset._apply_augmentation: the landmark arithmetic *)

\* np.radians(-angle): angle in thousandths of a degree, result in
\* thousandths of a radian (pi / 180 = 0.017453)
Radians(angleMilliDeg) == ((0 - angleMilliDeg) * 17453) \div (Milli * Milli)

\* np.cos, np.sin of an angle in thousandths of a radian (|angle| < 0.5),
\* by their Taylor polynomials
Cos(rad) == Milli - (rad * rad) \div (2 * Milli)

Sin(rad) == rad - (rad * rad * rad) \div (6 * Milli * Milli)

\* rx = cos_a * (x - cx) - sin_a * (y - cy) + cx ; ry likewise
RotatePoint(p, rad, w, h) ==
    LET cx == (w * Milli) \div 2
        cy == (h * Milli) \div 2
        x == p[1]
        y == p[2]
    IN << (Cos(rad) * (x - cx) - Sin(rad) * (y - cy)) \div Milli + cx,
          (Sin(rad) * (x - cx) + Cos(rad) * (y - cy)) \div Milli + cy >>

\* new_w, new_h = int(orig_w * scale), int(orig_h * scale)
ScaledSize(len, scale) == (len * scale) \div Milli

\* scale > 1.0: crop from the centre, (x * scale - left, y * scale - top)
\* else:        pad to the centre,   (x * scale + left, y * scale + top)
ScalePoint(p, scale, w, h) ==
    IF scale > Milli
    THEN LET left == (ScaledSize(w, scale) - w) \div 2
             top == (ScaledSize(h, scale) - h) \div 2
         IN << (p[1] * scale) \div Milli - left * Milli,
               (p[2] * scale) \div Milli - top * Milli >>
    ELSE LET left == (w - ScaledSize(w, scale)) \div 2
             top == (h - ScaledSize(h, scale)) \div 2
         IN << (p[1] * scale) \div Milli + left * Milli,
               (p[2] * scale) \div Milli + top * Milli >>

\* (orig_w - x, y)
FlipPoint(p, w) == << w * Milli - p[1], p[2] >>

\* variant: the clamp lets x = orig_w and y = orig_h through
ClampPointLoose(p, w, h) ==
    << PyMax(0, PyMin(w * Milli, p[1])),
       PyMax(0, PyMin(h * Milli, p[2])) >>

\* (max(0, min(orig_w - 1, x)), max(0, min(orig_h - 1, y)))
ClampPoint(p, w, h) ==
    << PyMax(0, PyMin((w - 1) * Milli, p[1])),
       PyMax(0, PyMin((h - 1) * Milli, p[2])) >>

MapPoints(f(_), lms) == [i \in 1..Len(lms) |-> f(lms[i])]

\* the conditions under which a step draws from the generator
RotationEnabled(cfg) == cfg.rotation_range > 0

ScaleEnabled(cfg) == cfg.scale_range # <<Milli, Milli>>

BrightnessEnabled(cfg) == cfg.brightness_range # <<Milli, Milli>>

ContrastEnabled(cfg) == cfg.contrast_range # <<Milli, Milli>>

----------------------------------------------------------------------------
(* Inputs *)

Configs ==
    { AUGMENTATION_CONFIG,
      EmptyConfig,
      [AUGMENTATION_CONFIG EXCEPT !.rotation_range = 0],
      [EmptyConfig EXCEPT !.scale_range = <<900, 1100>>,
                          !.horizontal_flip_prob = 100] }

\* (orig_w, orig_h) of the loaded image
ImageSizes == { <<40, 30>> }

\* annotation rows of the CSV: any floats, inside the image or not
LandmarkLists ==
    { << >>,
      << <<20000, 15000>> >>,
      << <<0, 0>>, <<39000, 29000>> >>,
      << <<0 - 5000, 10250>>, <<45500, 35250>> >> }

\* ratios in percent; the request model accepts each of them in [0, 1]
RatioPairs == { <<70, 15>>, <<70, 70>>, <<0, 0>>, <<100, 100>>, <<50, 25>> }

Seeds == { RANDOM_SEED, 7 }

\* the inputs of the two-thread harness: one configuration, one landmark
\* list, one item count and the default ratios
ThreadConfigs == { AUGMENTATION_CONFIG }

ThreadLandmarks == { << <<10000, 5250>> >> }

ThreadItemCounts == { MinSplitImages }

ThreadRatios == { <<TRAIN_SPLIT, VAL_SPLIT>> }

\* the single caller of the sequential specification
MainThread == CHOOSE w \in Threads : \A v \in Threads : w <= v

----------------------------------------------------------------------------
(* State of a thread *)

IdleThread ==
    [pc |-> "idle", op |-> "none",
     cfg |-> EmptyConfig, size |-> <<0, 0>>, lms |-> <<>>, cur |-> <<>>,
     draws |-> <<>>,
     path |-> "none", n |-> 0, tr |-> 0, vr |-> 0, seed |-> 0,
     rng0 |-> 0, result |-> NoResult]

\* the generator starts in any state (the interpreter seeds it from the
\* operating system); no invocation is running
InitPipe ==
    /\ rng \in 0..(RngMod - 1)
    /\ nprng = 0
    /\ th = [w \in Threads |-> IdleThread]

\* the pipeline at rest, for the specifications of the other components
PipeAtRest ==
    /\ rng = 0
    /\ nprng = 0
    /\ th = [w \in Threads |-> IdleThread]

NoEnc == [shape |-> <<0, 0>>, x |-> 0, y |-> 0, sigma |-> 0]

NoDecoded ==
    [x |-> 0 - 1, y |-> 0 - 1, x_orig |-> 0 - 1, y_orig |-> 0 - 1,
     size |-> <<0, 0>>, conf |-> 0, by |-> "none", raised |-> "none"]

InitCodec ==
    /\ cpc = "idle"
    /\ enc = NoEnc
    /\ logits = <<>>
    /\ heatmap = <<>>
    /\ decoded = NoDecoded

\* no landmark is in a step
IdleSteps ==
    [pc |-> "idle", size |-> <<0, 0>>, p |-> <<0, 0>>, q |-> <<0, 0>>,
     op |-> "none", n |-> 0, angle |-> 0]

InitSteps == fs = IdleSteps

\* number of landmark slots of an image (19 in train.py; the model
\* evaluates this many)
NUM_LANDMARKS == 2

\* largest number of rows of the test CSV
MaxTestRows == 2

\* the slots, range(NUM_LANDMARKS)
Slots == 0..(NUM_LANDMARKS - 1)

\* a float kept as the exact quotient num / den; 0 / 0 is nan
Rat(num, den) == [num |-> num, den |-> den]

NaN == Rat(0, 0)

\* nothing computed, nothing printed
NoCalc == [mre |-> NaN, std |-> NaN, sdr |-> <<>>, per_landmark_mre |-> <<>>]

\* nothing returned
NoMetrics == [kind |-> "none"]

IdleEval ==
    [pc |-> "idle", rows |-> <<>>, annotations |-> <<>>, n |-> 0, idx |-> 0,
     encoded |-> 0, nan_encoded |-> 0, pairs |-> <<>>,
     landmark_errors |-> [i \in Slots |-> <<>>], total_errors |-> <<>>,
     calc |-> NoCalc, printed |-> NoCalc, raised |-> "none",
     metrics |-> NoMetrics]

InitEval == ev = IdleEval

\* None
None == 0

\* most epochs of a training run
MaxEpochs == 3

\* TrainingLogger.__init__: self.metrics; train_model before its loop has no
\* best_loss yet (pc "idle"); checkpoint is the epoch whose weights
\* model_save_path holds, None when the run has written none
IdleLog ==
    [pc |-> "idle", has_val |-> FALSE, epoch |-> 0, epochs |-> <<>>,
     best_epoch |-> None, best_val_loss |-> None, best_loss |-> None,
     losses |-> <<>>, checkpoint |-> None]

InitLog == tl = IdleLog

\* most requests with an open session at a time
MaxSessions == 2

\* landmark ids of the one image the requests annotate
MaxLandmarkId == 2

\* most annotations of one bulk request
MaxBulk == 2

LandmarkIds == 1..MaxLandmarkId

\* a session that serves no request: the landmark ids of the request, the
\* index of the one at work, the rows its lookup found and the answer
NoRequest == [pc |-> "idle", items |-> <<>>, i |-> 0, found |-> 0, status |-> 0]

\* the annotations table: per landmark of the image the number of rows,
\* those committed and those flushed in the open transaction
InitAnn ==
    adb = [committed |-> [l \in LandmarkIds |-> 0],
           flushed |-> [l \in LandmarkIds |-> 0],
           req |-> [r \in 1..MaxSessions |-> NoRequest]]

\* most speakers and segments of the project
MaxSpeakers == 2

MaxSegments == 2

SpeakerIds == 1..MaxSpeakers

SegmentIds == 1..MaxSegments

NoSpeaker == [exists |-> FALSE, segment_count |-> 0]

NoSegment ==
    [exists |-> FALSE, speaker_id |-> None, is_deleted |-> FALSE,
     deleted_from_speaker_id |-> None]

\* the last request answered: what was asked, the status of the answer and
\* the speakers whose segment_count the handler wrote
NoCall == [op |-> "none", status |-> 0, segment_id |-> None, speaker_id |-> None,
           source |-> None, target |-> None, touched |-> {}]

\* no job has been started and the tables are empty
InitYt ==
    /\ job = [pc |-> "none", status |-> "none", project |-> "none",
              project_status |-> "none"]
    /\ ydb = [speakers |-> [s \in SpeakerIds |-> NoSpeaker],
              segments |-> [g \in SegmentIds |-> NoSegment],
              last |-> NoCall]

InitApps == InitLog /\ InitAnn /\ InitYt

Init == InitPipe /\ InitCodec /\ InitSteps /\ InitEval /\ InitApps

----------------------------------------------------------------------------
(* _apply_augmentation, one action per randomized step *)

\* __getitem__ calls _apply_augmentation(img, landmarks, orig_w, orig_h);
\* new_landmarks = list(landmarks)
CallApply(w, cfg, size, lms) ==
    /\ th[w].pc = "idle"
    /\ th' = [th EXCEPT ![w] =
                [IdleThread EXCEPT !.pc = "rotation", !.op = "apply",
                                   !.cfg = cfg, !.size = size,
                                   !.lms = lms, !.cur = lms, !.rng0 = rng]]
    /\ UNCHANGED <<rng, nprng, notPipe>>

\* variant: the angle is drawn from numpy's generator instead of random's
RotationFromNumpy(w) ==
    /\ th[w].pc = "rotation"
    /\ IF RotationEnabled(th[w].cfg)
       THEN LET u == NextRng(nprng)
                R == th[w].cfg.rotation_range * Milli
                rad == Radians(Uniform(0 - R, R, u))
                rot(p) == RotatePoint(p, rad, th[w].size[1], th[w].size[2])
            IN /\ rng' = NextRng(rng)
               /\ th' = [th EXCEPT ![w].pc = "scale",
                                   ![w].cur = MapPoints(rot, @),
                                   ![w].draws = Append(@, "rotation")]
       ELSE /\ rng' = rng
            /\ th' = [th EXCEPT ![w].pc = "scale"]
    /\ UNCHANGED <<nprng, notPipe>>

Rotation(w) ==
    /\ th[w].pc = "rotation"
    /\ IF RotationEnabled(th[w].cfg)
       THEN LET u == NextRng(rng)
                R == th[w].cfg.rotation_range * Milli
                rad == Radians(Uniform(0 - R, R, u))
                rot(p) == RotatePoint(p, rad, th[w].size[1], th[w].size[2])
            IN /\ rng' = u
               /\ th' = [th EXCEPT ![w].pc = "scale",
                                   ![w].cur = MapPoints(rot, @),
                                   ![w].draws = Append(@, "rotation")]
       ELSE /\ rng' = rng
            /\ th' = [th EXCEPT ![w].pc = "scale"]
    /\ UNCHANGED <<nprng, notPipe>>

\* variant: the scaled coordinates are written into the caller's list
ScaleInPlace(w) ==
    /\ th[w].pc = "scale"
    /\ IF ScaleEnabled(th[w].cfg)
       THEN LET u == NextRng(rng)
                scale == Uniform(th[w].cfg.scale_range[1],
                                 th[w].cfg.scale_range[2], u)
                sc(p) == ScalePoint(p, scale, th[w].size[1], th[w].size[2])
            IN /\ rng' = u
               /\ th' = [th EXCEPT ![w].pc = "brightness",
                                   ![w].cur = MapPoints(sc, @),
                                   ![w].lms = MapPoints(sc, th[w].cur),
                                   ![w].draws = Append(@, "scale")]
       ELSE /\ rng' = rng
            /\ th' = [th EXCEPT ![w].pc = "brightness"]
    /\ UNCHANGED <<nprng, notPipe>>

Scale(w) ==
    /\ th[w].pc = "scale"
    /\ IF ScaleEnabled(th[w].cfg)
       THEN LET u == NextRng(rng)
                scale == Uniform(th[w].cfg.scale_range[1],
                                 th[w].cfg.scale_range[2], u)
                sc(p) == ScalePoint(p, scale, th[w].size[1], th[w].size[2])
            IN /\ rng' = u
               /\ th' = [th EXCEPT ![w].pc = "brightness",
                                   ![w].cur = MapPoints(sc, @),
                                   ![w].draws = Append(@, "scale")]
       ELSE /\ rng' = rng
            /\ th' = [th EXCEPT ![w].pc = "brightness"]
    /\ UNCHANGED <<nprng, notPipe>>

\* the enhancers change pixels only
Brightness(w) ==
    /\ th[w].pc = "brightness"
    /\ IF BrightnessEnabled(th[w].cfg)
       THEN /\ rng' = NextRng(rng)
            /\ th' = [th EXCEPT ![w].pc = "contrast",
                                ![w].draws = Append(@, "brightness")]
       ELSE /\ rng' = rng
            /\ th' = [th EXCEPT ![w].pc = "contrast"]
    /\ UNCHANGED <<nprng, notPipe>>

Contrast(w) ==
    /\ th[w].pc = "contrast"
    /\ IF ContrastEnabled(th[w].cfg)
       THEN /\ rng' = NextRng(rng)
            /\ th' = [th EXCEPT ![w].pc = "flip",
                                ![w].draws = Append(@, "contrast")]
       ELSE /\ rng' = rng
            /\ th' = [th EXCEPT ![w].pc = "flip"]
    /\ UNCHANGED <<nprng, notPipe>>

\* variant: the flip decision is drawn only when the probability is positive
FlipClampConditional(w) ==
    /\ th[w].pc = "flip"
    /\ LET u == NextRng(rng)
           fl(p) == FlipPoint(p, th[w].size[1])
           cl(p) == ClampPoint(p, th[w].size[1], th[w].size[2])
       IN IF th[w].cfg.horizontal_flip_prob > 0
          THEN /\ rng' = u
               /\ th' = [th EXCEPT ![w].pc = "done",
                                   ![w].cur = MapPoints(cl,
                                       IF BelowProb(u, th[w].cfg.horizontal_flip_prob)
                                       THEN MapPoints(fl, th[w].cur)
                                       ELSE th[w].cur),
                                   ![w].draws = Append(@, "flip")]
          ELSE /\ rng' = rng
               /\ th' = [th EXCEPT ![w].pc = "done",
                                   ![w].cur = MapPoints(cl, @)]
    /\ UNCHANGED <<nprng, notPipe>>

\* random.random() is drawn whatever the probability; then the clamp and
\* the return
FlipClamp(w) ==
    /\ th[w].pc = "flip"
    /\ LET u == NextRng(rng)
           fl(p) == FlipPoint(p, th[w].size[1])
           cl(p) == ClampPoint(p, th[w].size[1], th[w].size[2])
           flipped == IF BelowProb(u, th[w].cfg.horizontal_flip_prob)
                      THEN MapPoints(fl, th[w].cur)
                      ELSE th[w].cur
       IN /\ rng' = u
          /\ th' = [th EXCEPT ![w].pc = "done",
                              ![w].cur = MapPoints(cl, flipped),
                              ![w].draws = Append(@, "flip")]
    /\ UNCHANGED <<nprng, notPipe>>

----------------------------------------------------------------------------
(* The two split paths *)

\* DatasetExporter.export_dataset with n annotated images
CallExport(w, n, tr, vr, seed, split) ==
    /\ th[w].pc = "idle"
    /\ LET t == [IdleThread EXCEPT !.op = "split", !.path = "export",
                                   !.n = n, !.tr = tr, !.vr = vr,
                                   !.seed = seed, !.rng0 = rng]
       IN th' = [th EXCEPT ![w] =
                   IF n = 0
                   THEN [t EXCEPT !.pc = "done", !.result.kind = "error"]
                   ELSE IF split /\ n >= MinSplitImages
                   THEN [t EXCEPT !.pc = "seed"]
                   ELSE [t EXCEPT !.pc = "done", !.result.kind = "all",
                                  !.result.all = Keys(n)]]
    /\ UNCHANGED <<rng, nprng, notPipe>>

\* train_model: split_annotations(all_annotations, ...)
CallTrain(w, n, tr, vr, seed) ==
    /\ th[w].pc = "idle"
    /\ th' = [th EXCEPT ![w] =
                [IdleThread EXCEPT !.pc = "seed", !.op = "split",
                                   !.path = "train", !.n = n, !.tr = tr,
                                   !.vr = vr, !.seed = seed, !.rng0 = rng]]
    /\ UNCHANGED <<rng, nprng, notPipe>>

\* variant: the split shuffles without seeding the generator
SplitSeedSkipped(w) ==
    /\ th[w].pc = "seed"
    /\ th' = [th EXCEPT ![w].pc = "shuffle"]
    /\ UNCHANGED <<rng, nprng, notPipe>>

\* random.seed(seed); split_annotations also calls np.random.seed(seed)
SplitSeed(w) ==
    /\ th[w].pc = "seed"
    /\ rng' = SeedState(th[w].seed)
    /\ nprng' = IF th[w].path = "train" THEN SeedState(th[w].seed) ELSE nprng
    /\ th' = [th EXCEPT ![w].pc = "shuffle"]
    /\ UNCHANGED notPipe

\* random.shuffle, the three slices, return
SplitShuffle(w) ==
    /\ th[w].pc = "shuffle"
    /\ LET sh == Shuffle(Keys(th[w].n), rng)
       IN /\ rng' = sh.rng
          /\ th' = [th EXCEPT ![w].pc = "done",
                              ![w].result = SplitResult(sh.keys, th[w].tr, th[w].vr)]
    /\ UNCHANGED <<nprng, notPipe>>

\* the caller takes the result and goes on to its next call
Return(w) ==
    /\ th[w].pc = "done"
    /\ th' = [th EXCEPT ![w] = IdleThread]
    /\ UNCHANGED <<rng, nprng, notPipe>>

----------------------------------------------------------------------------
(* One caller: any sequence of apply and split invocations *)

Next ==
    \/ \E cfg \in Configs, size \in ImageSizes, lms \in LandmarkLists :
          CallApply(MainThread, cfg, size, lms)
    \/ Rotation(MainThread)
    \/ Scale(MainThread)
    \/ Brightness(MainThread)
    \/ Contrast(MainThread)
    \/ FlipClamp(MainThread)
    \/ \E n \in 0..MaxItems, r \in RatioPairs, seed \in Seeds, split \in BOOLEAN :
          CallExport(MainThread, n, r[1], r[2], seed, split)
    \/ \E n \in 0..MaxItems, r \in RatioPairs, seed \in Seeds :
          CallTrain(MainThread, n, r[1], r[2], seed)
    \/ SplitSeed(MainThread)
    \/ SplitShuffle(MainThread)
    \/ Return(MainThread)

Spec == Init /\ [][Next]_vars

----------------------------------------------------------------------------
(* Two threads, each running one invocation, interleaved at every access   *)
(* to the shared generator                                                 *)

NextThreads ==
    \/ \E w \in Threads, cfg \in ThreadConfigs, size \in ImageSizes, lms \in ThreadLandmarks :
          CallApply(w, cfg, size, lms)
    \/ \E w \in Threads : Rotation(w)
    \/ \E w \in Threads : Scale(w)
    \/ \E w \in Threads : Brightness(w)
    \/ \E w \in Threads : Contrast(w)
    \/ \E w \in Threads : FlipClamp(w)
    \/ \E w \in Threads, n \in ThreadItemCounts, r \in ThreadRatios, seed \in Seeds :
          CallExport(w, n, r[1], r[2], seed, TRUE)
    \/ \E w \in Threads, n \in ThreadItemCounts, r \in ThreadRatios, seed \in Seeds :
          CallTrain(w, n, r[1], r[2], seed)
    \/ \E w \in Threads : SplitSeed(w)
    \/ \E w \in Threads : SplitShuffle(w)

SpecThreads == Init /\ [][NextThreads]_vars

----------------------------------------------------------------------------
(* Python floats                                                           *)
(*                                                                         *)
(* A Python float is a binary floating-point number: every operation       *)
(* returns the representable number nearest the exact result, ties to the  *)
(* even significand.  The format is modelled with SignificandBits bits of  *)
(* significand (53 in Python) and a smallest spacing of 2^-SubnormalBits;  *)
(* a value is the integer number of such smallest units.                   *)

SignificandBits == 8

SubnormalBits == 3

FloatUnit == 2^SubnormalBits

\* spacing of the representable numbers at magnitude a
RECURSIVE Ulp(_)
Ulp(a) == IF a < 2^SignificandBits THEN 1 ELSE 2 * Ulp(a \div 2)

\* the float nearest n / scale, ties to even
FloatRoundScaled(n, scale) ==
    LET a == IF n < 0 THEN 0 - n ELSE n
        u == Ulp(a \div scale)
        q == a \div (u * scale)
        r == a % (u * scale)
        m == IF 2 * r < u * scale THEN q
             ELSE IF 2 * r > u * scale THEN q + 1
             ELSE IF q % 2 = 0 THEN q ELSE q + 1
    IN IF n < 0 THEN 0 - m * u ELSE m * u

FloatRound(v) == FloatRoundScaled(v, 1)

\* a + b, a - b, a * b on floats
FloatAdd(a, b) == FloatRound(a + b)

FloatSub(a, b) == FloatRound(a - b)

FloatMul(a, b) == FloatRoundScaled(a * b, FloatUnit)

\* an int as a float; a value in thousandths as a float
FloatOfInt(k) == FloatRound(k * FloatUnit)

FloatOfMilli(v) == FloatRoundScaled(v * FloatUnit, Milli)

\* a / b on floats
FloatDiv(a, b) == FloatRoundScaled(a * FloatUnit, b)

----------------------------------------------------------------------------
(* The heatmap codec: _generate_heatmap, the decoder of evaluate_model and  *)
(* LandmarkPredictor.heatmap_to_coordinates                                *)
(*                                                                         *)
(* A grid is a sequence of rows (row 1 is y = 0), a row a sequence of      *)
(* values (entry 1 is x = 0).  Encoded coordinates are in half cells, so   *)
(* that a coordinate may lie midway between two cells.                     *)

\* largest sigma of an encoded heatmap
MaxSigma == 5

\* raw network outputs range over -1..MaxLogit
MaxLogit == 1

\* fixed-point one of heatmap values
FixOne == 2^14

\* nan as a grid value: argmax and max order it above every number, so the
\* first nan of a grid is its first maximum
NanCell == 2 * FixOne

\* (width, height) of the grids of the model
EncodeShapes == { <<4, 3>> }

\* (width, height) of a tensor handed to the decoder; the second has no row
OutputShapes == { <<3, 2>>, <<3, 0>> }

\* original_size = image.size of the image the prediction is for
OriginalSizes == { <<80, 60>>, <<1, 3>> }

\* np.exp(-num / den) for num >= 0 < den, in units of 1 / FixOne, by scaling
\* and squaring: exp(-t) = (exp(-t / 32)) ^ 32 with
\* exp(-s) = 1 - s + s^2 / 2 for the small s; 0 once t >= 32
Square(v) == (v * v) \div FixOne

ExpNeg(num, den) ==
    IF num >= 32 * den THEN 0
    ELSE LET s == (num * FixOne) \div (32 * den)
             base == FixOne - s + (s * s) \div (2 * FixOne)
         IN Square(Square(Square(Square(Square(base)))))

\* torch.sigmoid(v) = 1 / (1 + exp(-v)) for an integer v
Sigmoid(v) ==
    IF v = NanCell THEN NanCell
    ELSE IF v >= 0
    THEN (FixOne * FixOne) \div (FixOne + ExpNeg(v, 1))
    ELSE (ExpNeg(0 - v, 1) * FixOne) \div (FixOne + ExpNeg(0 - v, 1))

\* variant: the Gaussian is centred at column y, row x
GenerateHeatmapTransposed(x2, y2, width, height, sigma) ==
    [r \in 1..height |->
        [c \in 1..width |->
            ExpNeg((2 * (c - 1) - y2) * (2 * (c - 1) - y2)
                   + (2 * (r - 1) - x2) * (2 * (r - 1) - x2),
                   8 * sigma * sigma)]]

\* xx, yy = np.meshgrid(np.arange(width), np.arange(height))
\* heatmap = np.exp(-((xx - x) ** 2 + (yy - y) ** 2) / (2 * sigma ** 2))
\* x2, y2 are twice the coordinate; the squared distance is in quarter cells
GenerateHeatmap(x2, y2, width, height, sigma) ==
    [r \in 1..height |->
        [c \in 1..width |->
            ExpNeg((2 * (c - 1) - x2) * (2 * (c - 1) - x2)
                   + (2 * (r - 1) - y2) * (2 * (r - 1) - y2),
                   8 * sigma * sigma)]]

SigmoidGrid(g) == [r \in 1..Len(g) |-> [c \in 1..Len(g[r]) |-> Sigmoid(g[r][c])]]

\* the C-order (row-major) flattening argmax works on
RECURSIVE Flatten(_)
Flatten(g) == IF g = <<>> THEN <<>> ELSE Head(g) \o Flatten(Tail(g))

\* variant: the index of the last maximal entry
ArgMaxLast(flat) ==
    CHOOSE i \in 0..(Len(flat) - 1) :
        /\ \A j \in 1..Len(flat) : flat[j] <= flat[i + 1]
        /\ \A j \in (i + 2)..Len(flat) : flat[j] < flat[i + 1]

\* argmax(): the 0-based index of the first maximal entry of the flattened grid
ArgMax(flat) ==
    CHOOSE i \in 0..(Len(flat) - 1) :
        /\ \A j \in 1..Len(flat) : flat[j] <= flat[i + 1]
        /\ \A j \in 1..i : flat[j] < flat[i + 1]

\* variant: the index is unravelled against the height
UnravelIndexByHeight(idx, width, height) == << idx \div height, idx % height >>

\* np.unravel_index(idx, (height, width)) = (row, column);
\* max_idx // w, max_idx % w
UnravelIndex(idx, width, height) == << idx \div width, idx % width >>

\* variant: the value of the last cell
LastValue(flat) == flat[Len(flat)]

\* the value heatmap.max()
MaxValue(flat) == flat[ArgMax(flat) + 1]

\* variant: the index is divided by the largest index, len - 1
ScaleToOriginalInclusive(idx, len, orig) ==
    IF len = 1 THEN 0
    ELSE FloatMul(FloatDiv(FloatOfInt(idx), FloatOfInt(len - 1)), FloatOfInt(orig))

\* (x_pred / w) * orig_w, (y_pred / h) * orig_h
ScaleToOriginal(idx, len, orig) ==
    FloatMul(FloatDiv(FloatOfInt(idx), FloatOfInt(len)), FloatOfInt(orig))

Width(g) == Len(g[1])

Height(g) == Len(g)

\* coordinates handed to _generate_heatmap, in half cells: from one cell
\* left of (above) the grid to one cell right of (below) it
EncodeCoords(len) == (0 - 2)..(2 * len + 1)

\* the raw outputs of the network: any numbers, or numbers and nan
LogitGrids(shape) ==
    [1..shape[2] -> [1..shape[1] -> (0 - 1)..MaxLogit]] \cup
    [1..shape[2] -> [1..shape[1] -> {0, NanCell}]]

\* __getitem__: _generate_heatmap(x_scaled, y_scaled, input_size[0], input_size[1])
Encode(shape, x2, y2, sigma) ==
    /\ cpc = "idle"
    /\ cpc' = "heatmap"
    /\ enc' = [shape |-> shape, x |-> x2, y |-> y2, sigma |-> sigma]
    /\ heatmap' = GenerateHeatmap(x2, y2, shape[1], shape[2], sigma)
    /\ UNCHANGED <<logits, decoded, notCodec>>

\* pred_heatmaps = model(img_tensor): any grid of raw values
ModelForward(g) ==
    /\ cpc = "idle"
    /\ cpc' = "logits"
    /\ logits' = g
    /\ UNCHANGED <<enc, heatmap, decoded, notCodec>>

\* evaluate_model: pred_heatmaps = torch.sigmoid(pred_heatmaps)
EvaluateSigmoid ==
    /\ cpc = "logits"
    /\ cpc' = "heatmap"
    /\ heatmap' = SigmoidGrid(logits)
    /\ UNCHANGED <<enc, logits, decoded, notCodec>>

\* evaluate_model: y, x = np.unravel_index(hm.argmax(), hm.shape), for the
\* ground-truth heatmap and for the predicted one
\* argmax of an array without elements raises ValueError
EvaluateDecode ==
    /\ cpc = "heatmap"
    /\ cpc' = "decoded"
    /\ IF Flatten(heatmap) = <<>>
       THEN decoded' = [NoDecoded EXCEPT !.by = "evaluate", !.raised = "ValueError"]
       ELSE LET idx == ArgMax(Flatten(heatmap))
                yx == UnravelIndex(idx, Width(heatmap), Height(heatmap))
            IN decoded' = [NoDecoded EXCEPT !.x = yx[2], !.y = yx[1],
                                            !.by = "evaluate"]
    /\ UNCHANGED <<enc, logits, heatmap, notCodec>>

\* LandmarkPredictor.heatmap_to_coordinates for one landmark: sigmoid,
\* max_val, argmax, y_pred = max_idx // w, x_pred = max_idx % w
\* heatmap.max() of a tensor without elements raises RuntimeError;
\* then x_orig = (x_pred / w) * orig_w, y_orig = (y_pred / h) * orig_h and
\* results[i + 1] = (x_orig, y_orig, max_val)
HeatmapToCoordinates(original_size) ==
    /\ cpc = "logits"
    /\ cpc' = "decoded"
    /\ LET hm == SigmoidGrid(logits)
       IN /\ heatmap' = hm
          /\ IF Flatten(hm) = <<>>
             THEN decoded' = [NoDecoded EXCEPT !.by = "predictor",
                                               !.raised = "RuntimeError"]
             ELSE LET idx == ArgMax(Flatten(hm))
                      yx == UnravelIndex(idx, Width(hm), Height(hm))
                  IN decoded' = [NoDecoded EXCEPT
                        !.x = yx[2], !.y = yx[1],
                        !.x_orig = ScaleToOriginal(yx[2], Width(hm), original_size[1]),
                        !.y_orig = ScaleToOriginal(yx[1], Height(hm), original_size[2]),
                        !.conf = MaxValue(Flatten(hm)),
                        !.size = original_size,
                        !.by = "predictor"]
    /\ UNCHANGED <<enc, logits, notCodec>>

\* the caller takes the coordinates
CodecReturn ==
    /\ cpc = "decoded"
    /\ cpc' = "idle"
    /\ enc' = NoEnc
    /\ logits' = <<>>
    /\ heatmap' = <<>>
    /\ decoded' = NoDecoded
    /\ UNCHANGED notCodec

NextCodec ==
    \/ \E shape \in EncodeShapes, sigma \in 1..MaxSigma :
          \E x2 \in EncodeCoords(shape[1]), y2 \in EncodeCoords(shape[2]) :
              Encode(shape, x2, y2, sigma)
    \/ \E shape \in OutputShapes : \E g \in LogitGrids(shape) : ModelForward(g)
    \/ EvaluateSigmoid
    \/ EvaluateDecode
    \/ \E size \in OriginalSizes : HeatmapToCoordinates(size)
    \/ CodecReturn

\* the decoding starts with no augmentation or split in flight
InitAtRest == PipeAtRest /\ InitCodec /\ InitSteps /\ InitEval /\ InitApps

SpecCodec == InitAtRest /\ [][NextCodec]_vars

----------------------------------------------------------------------------
(* The flip and the rotation step on Python floats                         *)

\* variant: the mirror image of pixel x, orig_w - 1 - x
FloatFlipStandard(p, w) == << FloatSub(FloatOfInt(w - 1), p[1]), p[2] >>

\* (orig_w - x, y)
FloatFlipPoint(p, w) == << FloatSub(FloatOfInt(w), p[1]), p[2] >>

\* variant: the sine and the cosine are exchanged
FloatRotateSwapped(p, cosA, sinA, w, h) ==
    LET cx == FloatRoundScaled(w * FloatUnit, 2)
        cy == FloatRoundScaled(h * FloatUnit, 2)
        dx == FloatSub(p[1], cx)
        dy == FloatSub(p[2], cy)
    IN << FloatAdd(FloatSub(FloatMul(sinA, dx), FloatMul(cosA, dy)), cx),
          FloatAdd(FloatAdd(FloatMul(cosA, dx), FloatMul(sinA, dy)), cy) >>

\* cx, cy = orig_w / 2, orig_h / 2
\* rx = cos_a * (x - cx) - sin_a * (y - cy) + cx
\* ry = sin_a * (x - cx) + cos_a * (y - cy) + cy
FloatRotatePoint(p, cosA, sinA, w, h) ==
    LET cx == FloatRoundScaled(w * FloatUnit, 2)
        cy == FloatRoundScaled(h * FloatUnit, 2)
        dx == FloatSub(p[1], cx)
        dy == FloatSub(p[2], cy)
    IN << FloatAdd(FloatSub(FloatMul(cosA, dx), FloatMul(sinA, dy)), cx),
          FloatAdd(FloatAdd(FloatMul(sinA, dx), FloatMul(cosA, dy)), cy) >>

\* (orig_w, orig_h) of the image
StepSizes == { <<80, 60>> }

\* the x coordinates a landmark may have when it enters a step: every
\* float from two pixels left of the image to one pixel right of it
StepXs(w) == { v \in (0 - 2 * FloatUnit)..((w + 1) * FloatUnit) : FloatRound(v) = v }

StepYs(h) == { 0, 3, FloatOfInt(h) \div 2, FloatOfInt(h - 1) }

\* angles random.uniform(-R, R) may return, in thousandths of a degree
StepAngles == { 0, 10000, 0 - 10000 }

\* a landmark of an image enters the steps
StepInput(size, p) ==
    /\ fs.pc = "idle"
    /\ fs' = [IdleSteps EXCEPT !.pc = "ready", !.size = size, !.p = p, !.q = p]
    /\ UNCHANGED notSteps

\* the rotation step with the angle it sampled
RotationStep(angle) ==
    /\ fs.pc = "ready"
    /\ fs.op = "none"
    /\ LET rad == Radians(angle)
       IN fs' = [fs EXCEPT !.op = "rotation", !.n = 1, !.angle = angle,
                           !.q = FloatRotatePoint(fs.q, FloatOfMilli(Cos(rad)),
                                                  FloatOfMilli(Sin(rad)),
                                                  fs.size[1], fs.size[2])]
    /\ UNCHANGED notSteps

\* the flip step, taken when random.random() < horizontal_flip_prob; a
\* second call of apply flips the landmark again
FlipStep ==
    /\ fs.pc = "ready"
    /\ fs.op \in {"none", "flip"}
    /\ fs.n < 2
    /\ fs' = [fs EXCEPT !.op = "flip", !.n = @ + 1,
                        !.q = FloatFlipPoint(fs.q, fs.size[1])]
    /\ UNCHANGED notSteps

\* the next landmark
StepDone ==
    /\ fs.pc = "ready"
    /\ fs.op # "none"
    /\ fs' = IdleSteps
    /\ UNCHANGED notSteps

NextSteps ==
    \/ \E size \in StepSizes : \E x \in StepXs(size[1]), y \in StepYs(size[2]) :
          StepInput(size, <<x, y>>)
    \/ \E angle \in StepAngles : RotationStep(angle)
    \/ FlipStep
    \/ StepDone

SpecSteps == InitAtRest /\ [][NextSteps]_vars

----------------------------------------------------------------------------
(* evaluate_model: load_annotations, the loop over the test images, the    *)
(* metrics, the printed report and the returned dictionary                 *)
(*                                                                         *)
(* Errors are in thousandths of a pixel.  A mean is kept as the exact      *)
(* quotient sum / count, so that np.mean of an empty list is 0 / 0 = nan.  *)

\* SDR thresholds, in pixels
Thresholds == <<2, 4, 10, 20>>

\* f"sdr_{threshold}px"
SdrKey(t) == "sdr_" \o ToString(t) \o "px"

IsNaN(v) == v.den = 0

RECURSIVE SqrtIn(_, _, _)
SqrtIn(v, lo, hi) ==
    IF lo = hi THEN lo
    ELSE LET mid == (lo + hi + 1) \div 2
         IN IF mid * mid <= v THEN SqrtIn(v, mid, hi) ELSE SqrtIn(v, lo, mid - 1)

\* np.sqrt, rounded down to the unit
ISqrt(v) == SqrtIn(v, 0, 46340)

RECURSIVE Sum(_)
Sum(x) == IF x = <<>> THEN 0 ELSE Head(x) + Sum(Tail(x))

\* variant: the mean of the entries that are not 0
MeanOfNonZero(x) ==
    Rat(Sum(x), Cardinality({ i \in 1..Len(x) : x[i] # 0 }))

\* np.mean
Mean(x) == Rat(Sum(x), Len(x))

\* np.std: sqrt(mean(abs(x - x.mean()) ** 2))
Std(x) ==
    LET n == Len(x)
        squares == [i \in 1..n |-> x[i] * x[i]]
    IN Rat(ISqrt(n * Sum(squares) - Sum(x) * Sum(x)), n)

\* error = np.sqrt((pred_x - gt_x) ** 2 + (pred_y - gt_y) ** 2)
Error(off) == ISqrt((off[1] * off[1] + off[2] * off[2]) * Milli * Milli)

\* variant: an error equal to the threshold counts as a success
BelowOrEqual(e, t) == e <= t * Milli

\* error < threshold
Below(e, t) == e < t * Milli

\* variant: the rate of the errors that are not below the threshold
SdrAbove(errors, t) ==
    LET hits == [i \in 1..Len(errors) |-> IF Below(errors[i], t) THEN 0 ELSE 1]
    IN Rat(Mean(hits).num * 100, Mean(hits).den)

\* np.mean(np.array(total_errors) < threshold) * 100
Sdr(errors, t) ==
    LET hits == [i \in 1..Len(errors) |-> IF Below(errors[i], t) THEN 1 ELSE 0]
    IN Rat(Mean(hits).num * 100, Mean(hits).den)

\* a row of the CSV: whether its image file exists, and for each slot
\* whether the x and y cells hold a number ("num"), are empty ("", as
\* export_csv writes a landmark that is not annotated) or read "nan".
\* The rows: one without image, a complete one, one whose last landmark is
\* empty and one whose first landmark is nan.
CsvRows ==
    { [exists |-> FALSE, cells |-> [i \in Slots |-> "num"]],
      [exists |-> TRUE, cells |-> [i \in Slots |-> "num"]],
      [exists |-> TRUE,
       cells |-> [i \in Slots |-> IF i = NUM_LANDMARKS - 1 THEN "" ELSE "num"]],
      [exists |-> TRUE,
       cells |-> [i \in Slots |-> IF i = 0 THEN "nan" ELSE "num"]] }

RECURSIVE CsvFiles(_)
CsvFiles(k) ==
    IF k = 0 THEN { <<>> }
    ELSE CsvFiles(k - 1) \cup
         { Append(f, r) : f \in { g \in CsvFiles(k - 1) : Len(g) = k - 1 }, r \in CsvRows }

\* (pred_x - gt_x, pred_y - gt_y) of a slot: the decoded cells differ by
\* nothing, by 2 columns, or by 3 columns and 4 rows
Offsets == { <<0, 0>>, <<2, 0>>, <<3, 4>> }

\* load_annotations from row i on, with the landmark lists loaded so far:
\* a row whose image is missing is skipped; float("") raises ValueError;
\* float("nan") is nan
RECURSIVE LoadFrom(_, _, _)
LoadFrom(rows, i, anns) ==
    IF i > Len(rows) THEN [raised |-> "none", annotations |-> anns]
    ELSE IF ~rows[i].exists THEN LoadFrom(rows, i + 1, anns)
    ELSE IF \E k \in Slots : rows[i].cells[k] = ""
    THEN [raised |-> "ValueError", annotations |-> <<>>]
    ELSE LoadFrom(rows, i + 1, Append(anns, rows[i].cells))

load_annotations(rows) == LoadFrom(rows, 1, <<>>)

\* evaluate_model up to the loop: without a checkpoint it returns {}
EvalStart(modelExists, rows) ==
    /\ ev.pc = "idle"
    /\ LET loaded == load_annotations(rows)
       IN ev' = IF ~modelExists
                THEN [IdleEval EXCEPT !.pc = "done", !.metrics = [kind |-> "empty"]]
                ELSE IF loaded.raised # "none"
                THEN [IdleEval EXCEPT !.pc = "done", !.rows = rows,
                                      !.raised = loaded.raised]
                ELSE [IdleEval EXCEPT !.pc = "loop", !.rows = rows,
                                      !.annotations = loaded.annotations,
                                      !.n = Len(loaded.annotations)]
    /\ UNCHANGED notEval

\* the slots of a landmark list whose coordinate is nan
NanSlots(lms) == { i \in Slots : lms[i] = "nan" }

\* one test image: a heatmap is encoded for each of its landmarks (from a
\* nan coordinate a heatmap of nan, whose argmax is cell (0, 0)), and for
\* every slot the distance of the two decoded cells is appended to both
\* lists; pairs keeps (pred_x - gt_x, pred_y - gt_y) of every slot
EvalImage(offs) ==
    /\ ev.pc = "loop"
    /\ ev.idx < ev.n
    /\ ev' = [ev EXCEPT
                !.idx = @ + 1,
                !.encoded = @ + NUM_LANDMARKS,
                !.nan_encoded = @ + Cardinality(NanSlots(ev.annotations[ev.idx + 1])),
                !.pairs = Append(@, offs),
                !.landmark_errors = [i \in Slots |-> Append(@[i], Error(offs[i]))],
                !.total_errors = @ \o [k \in 1..NUM_LANDMARKS |-> Error(offs[k - 1])]]
    /\ UNCHANGED notEval

\* mre, std, per_landmark_mre and sdr
EvalMetrics ==
    /\ ev.pc = "loop"
    /\ ev.idx = ev.n
    /\ ev' = [ev EXCEPT
                !.pc = "print",
                !.calc = [mre |-> Mean(ev.total_errors),
                          std |-> Std(ev.total_errors),
                          per_landmark_mre |->
                              [i \in Slots |-> Mean(ev.landmark_errors[i])],
                          sdr |-> [k \in 1..Len(Thresholds) |->
                                      Sdr(ev.total_errors, Thresholds[k])]]]
    /\ UNCHANGED notEval

\* the printed report: the overall metrics, then for every slot a bar of
\* int(mre_i) stars; int(nan) raises ValueError
EvalPrint ==
    /\ ev.pc = "print"
    /\ ev' = [ev EXCEPT
                !.printed = [NoCalc EXCEPT !.mre = ev.calc.mre,
                                           !.std = ev.calc.std,
                                           !.sdr = ev.calc.sdr],
                !.pc = IF \E i \in Slots : IsNaN(ev.calc.per_landmark_mre[i])
                       THEN "done" ELSE "return",
                !.raised = IF \E i \in Slots : IsNaN(ev.calc.per_landmark_mre[i])
                           THEN "ValueError" ELSE "none"]
    /\ UNCHANGED notEval

\* the metrics dictionary; evaluate_model is called without a logger
EvalReturn ==
    /\ ev.pc = "return"
    /\ ev' = [ev EXCEPT
                !.pc = "done",
                !.metrics =
                    [kind |-> "report",
                     mre |-> ev.calc.mre,
                     std |-> ev.calc.std,
                     sdr |-> [key \in { SdrKey(Thresholds[k]) : k \in 1..Len(Thresholds) } |->
                                 ev.calc.sdr[CHOOSE k \in 1..Len(Thresholds) :
                                                 SdrKey(Thresholds[k]) = key]],
                     per_landmark_mre |->
                         [key \in { ToString(i) : i \in Slots } |->
                             ev.calc.per_landmark_mre[CHOOSE i \in Slots : ToString(i) = key]],
                     test_images |-> ev.n]]
    /\ UNCHANGED notEval

\* the caller takes the result; the next evaluation
EvalDone ==
    /\ ev.pc = "done"
    /\ ev' = IdleEval
    /\ UNCHANGED notEval

NextEval ==
    \/ \E modelExists \in BOOLEAN, rows \in CsvFiles(MaxTestRows) :
          EvalStart(modelExists, rows)
    \/ \E offs \in [Slots -> Offsets] : EvalImage(offs)
    \/ EvalMetrics
    \/ EvalPrint
    \/ EvalReturn
    \/ EvalDone

SpecEval == InitAtRest /\ [][NextEval]_vars

----------------------------------------------------------------------------
(* TrainingLogger.log_epoch and the loop of train_model                    *)
(*                                                                         *)
(* A loss is a positive integer, NanLoss or InfLoss; None is 0.  Every     *)
(* comparison with nan is false.                                           *)

\* largest finite loss
MaxLoss == 2

\* float("nan") and float("inf")
NanLoss == 0 - 1

InfLoss == MaxLoss + 1

\* the losses an epoch may end with
LossValues == (1..MaxLoss) \cup {NanLoss}

\* a < b on floats
Less(a, b) == a # NanLoss /\ b # NanLoss /\ a < b

\* log_epoch: the epoch is appended, and best_val_loss and best_epoch are
\* replaced when val_loss is not None and there is no best yet or val_loss
\* is below it
log_epoch(m, epoch, val_loss) ==
    LET logged == [m EXCEPT !.epochs = Append(@, [epoch |-> epoch,
                                                   val_loss |-> val_loss])]
    IN IF val_loss # None
          /\ (m.best_val_loss = None \/ Less(val_loss, m.best_val_loss))
       THEN [logged EXCEPT !.best_val_loss = val_loss, !.best_epoch = epoch]
       ELSE logged

\* a caller of the logger logs an epoch
LogEpoch(epoch, val_loss) ==
    /\ tl.pc \in {"idle", "log"}
    /\ Len(tl.epochs) < MaxEpochs
    /\ tl' = [log_epoch(tl, epoch, val_loss) EXCEPT !.pc = "log"]
    /\ UNCHANGED notLog

\* train_model up to its loop: a new logger, best_loss = float("inf")
TrainStart(has_val) ==
    /\ tl.pc = "idle"
    /\ tl' = [IdleLog EXCEPT !.pc = "train", !.has_val = has_val,
                             !.best_loss = InfLoss]
    /\ UNCHANGED notLog

\* one epoch of train_model: the epoch is logged, with its validation loss
\* when there is a val_loader, and the weights are saved when the loss of
\* the epoch (validation loss, else training loss) is below best_loss
TrainEpoch(train_loss, val_loss) ==
    /\ tl.pc = "train"
    /\ tl.epoch < MaxEpochs
    /\ LET e == tl.epoch + 1
           loss == IF tl.has_val THEN val_loss ELSE train_loss
           logged == log_epoch(tl, e, IF tl.has_val THEN val_loss ELSE None)
           counted == [logged EXCEPT !.epoch = e, !.losses = Append(@, loss)]
       IN tl' = IF Less(loss, tl.best_loss)
                THEN [counted EXCEPT !.best_loss = loss, !.checkpoint = e]
                ELSE counted
    /\ UNCHANGED notLog

\* train_model returns, or the caller drops the logger
LogDone ==
    /\ tl.pc \in {"train", "log"}
    /\ tl' = IdleLog
    /\ UNCHANGED notLog

NextLog ==
    \/ \E epoch \in 1..MaxEpochs, val_loss \in LossValues \cup {None} :
          LogEpoch(epoch, val_loss)
    \/ \E has_val \in BOOLEAN : TrainStart(has_val)
    \/ \E train_loss \in LossValues, val_loss \in LossValues :
          TrainEpoch(train_loss, val_loss)
    \/ LogDone

SpecLog == InitAtRest /\ [][NextLog]_vars

----------------------------------------------------------------------------
(* cephalometric_mvp: create_annotation and create_bulk_annotations         *)
(*                                                                         *)
(* Each request has its own AsyncSession and yields to the event loop at   *)
(* every await, so the lookup of a pair and the write that follows it are  *)
(* two steps, and steps of other requests may come between them.  With the *)
(* default sqlite URL the engine has a StaticPool: the sessions share one  *)
(* connection and with it one transaction.                                 *)

Sessions == 1..MaxSessions

\* the landmark ids of a request: one for create_annotation, the list of
\* bulk.annotations for create_bulk_annotations
RequestItems ==
    UNION { [1..n -> LandmarkIds] : n \in 1..MaxBulk }

\* the rows select(Annotation).where(image_id, landmark_id) returns
RowsOf(l) == adb.committed[l] + adb.flushed[l]

\* a request arrives: get_db opens its session, and the image is found
BeginRequest(r, items) ==
    /\ adb.req[r].pc = "idle"
    /\ adb' = [adb EXCEPT !.req[r] =
                 [pc |-> "select", items |-> items, i |-> 1, found |-> 0,
                  status |-> 0]]
    /\ UNCHANGED notAnn

\* result = await db.execute(select(Annotation).where(...))
Lookup(r) ==
    /\ adb.req[r].pc = "select"
    /\ adb' = [adb EXCEPT
                 !.req[r].found = RowsOf(adb.req[r].items[adb.req[r].i]),
                 !.req[r].pc = "found"]
    /\ UNCHANGED notAnn

\* existing = result.scalar_one_or_none() finds several rows and raises
\* MultipleResultsFound: get_db rolls back and the request is answered 500
LookupRaises(r) ==
    /\ adb.req[r].pc = "found"
    /\ adb.req[r].found > 1
    /\ adb' = [adb EXCEPT
                 !.flushed = [l \in LandmarkIds |-> 0],
                 !.req[r] = [NoRequest EXCEPT !.status = 500]]
    /\ UNCHANGED notAnn

\* the row found is updated, or a new one is added; await db.flush()
Write(r) ==
    LET q == adb.req[r]
        l == q.items[q.i]
        last == q.i = Len(q.items)
    IN /\ q.pc = "found"
       /\ q.found <= 1
       /\ adb' = [adb EXCEPT
                    !.flushed[l] = IF q.found = 0 THEN @ + 1 ELSE @,
                    !.req[r].i = IF last THEN @ ELSE @ + 1,
                    !.req[r].pc = IF last THEN "commit" ELSE "select"]
       /\ UNCHANGED notAnn

\* the handler returns and get_db commits: await session.commit()
CommitRequest(r) ==
    /\ adb.req[r].pc = "commit"
    /\ adb' = [adb EXCEPT
                 !.committed = [l \in LandmarkIds |-> RowsOf(l)],
                 !.flushed = [l \in LandmarkIds |-> 0],
                 !.req[r] = [NoRequest EXCEPT !.status = 201]]
    /\ UNCHANGED notAnn

NextAnn ==
    \/ \E r \in Sessions, items \in RequestItems : BeginRequest(r, items)
    \/ \E r \in Sessions : Lookup(r)
    \/ \E r \in Sessions : LookupRaises(r)
    \/ \E r \in Sessions : Write(r)
    \/ \E r \in Sessions : CommitRequest(r)

SpecAnn == InitAtRest /\ [][NextAnn]_vars

----------------------------------------------------------------------------
(* youtube_downloader: the diarization job (services/diarization_service)  *)
(* and the requests of routers/segments.py and routers/speakers.py         *)
(*                                                                         *)
(* The job runs in a worker thread while its status is polled, so each     *)
(* assignment to job.status is a step of its own.  A request handler is    *)
(* an async function without await: it runs from its first query to its    *)
(* commit in one step.  Its session has autoflush=False, so every query of *)
(* a handler reads the tables as they were when the handler began.         *)

\* start_diarization / start_diarization_from_file: the project row and
\* the job are created, and the job is handed to the thread pool
StartDiarization ==
    /\ job.pc = "none"
    /\ job' = [pc |-> "queued", status |-> "pending", project |-> "exists",
               project_status |-> "pending"]
    /\ UNCHANGED <<ydb, notYt>>

\* delete_project: the project row goes, and its speakers and segments
DeleteProject ==
    /\ job.project = "exists"
    /\ job' = [job EXCEPT !.project = "deleted", !.project_status = "none"]
    /\ ydb' = [speakers |-> [s \in SpeakerIds |-> NoSpeaker],
               segments |-> [g \in SegmentIds |-> NoSegment],
               last |-> [NoCall EXCEPT !.op = "delete_project", !.status = 200]]
    /\ UNCHANGED notYt

\* run_diarization_sync / run_file_diarization_sync up to the first status:
\* "error" when the project is not found, else "processing"
JobLookup ==
    /\ job.pc = "queued"
    /\ job' = IF job.project = "exists"
              THEN [job EXCEPT !.pc = "upd_processing", !.status = "processing"]
              ELSE [job EXCEPT !.pc = "done", !.status = "error"]
    /\ UNCHANGED <<ydb, notYt>>

\* the status the pending call of update_project_status writes
StatusWritten ==
    CASE job.pc = "upd_processing" -> "processing"
      [] job.pc = "upd_completed" -> "completed"
      [] OTHER -> "error"

\* where the job goes when update_project_status returns, and when it
\* raises: into the handler of `except Exception`, or out of the handler
AfterUpdate(ok) ==
    IF ok THEN (IF job.pc = "upd_processing" THEN "work" ELSE "done")
    ELSE (IF job.pc = "upd_except" THEN "done" ELSE "except")

\* update_project_status: the row is written and committed, unless the
\* project is gone; the session may raise (the database is locked)
UpdateProjectStatus(ok) ==
    /\ job.pc \in {"upd_processing", "upd_error", "upd_completed", "upd_except"}
    /\ job' = [job EXCEPT
                 !.pc = AfterUpdate(ok),
                 !.project_status =
                     IF ok /\ job.project = "exists" THEN StatusWritten ELSE @]
    /\ UNCHANGED <<ydb, notYt>>

\* a step of the job fails: the download, pyannote or the token is missing,
\* the diarization or the splitting returns nothing
JobFail ==
    /\ job.pc = "work"
    /\ job' = [job EXCEPT !.pc = "upd_error", !.status = "error"]
    /\ UNCHANGED <<ydb, notYt>>

\* a step of the job raises
JobRaise ==
    /\ job.pc = "work"
    /\ job' = [job EXCEPT !.pc = "except"]
    /\ UNCHANGED <<ydb, notYt>>

\* the segments of the diarization result given to speaker s
SegmentsOf(label, s) == { g \in SegmentIds : label[g] = s }

\* step 5 of the job: a speaker row for every label of the result, with
\* segment_count = len(segs), and a segment row for every segment that is
\* not shorter than 0.1 s
JobSave(label, short) ==
    /\ job.pc = "work"
    /\ job' = [job EXCEPT !.pc = "complete"]
    /\ ydb' = [speakers |->
                  [s \in SpeakerIds |->
                      IF SegmentsOf(label, s) = {} THEN NoSpeaker
                      ELSE [exists |-> TRUE,
                            segment_count |-> Cardinality(SegmentsOf(label, s))]],
               segments |->
                  [g \in SegmentIds |->
                      IF g \in short THEN NoSegment
                      ELSE [NoSegment EXCEPT !.exists = TRUE,
                                             !.speaker_id = label[g]]],
               last |-> NoCall]
    /\ UNCHANGED notYt

\* job.status = "completed", before the project row is updated
JobComplete ==
    /\ job.pc = "complete"
    /\ job' = [job EXCEPT !.pc = "upd_completed", !.status = "completed"]
    /\ UNCHANGED <<ydb, notYt>>

\* except Exception as e: job.status = "error"
JobExcept ==
    /\ job.pc = "except"
    /\ job' = [job EXCEPT !.pc = "upd_except", !.status = "error"]
    /\ UNCHANGED <<ydb, notYt>>

\* db.query(Segment).filter(Segment.speaker_id == s,
\*                          Segment.is_deleted == False).all(), counted
CountActive(segments, s) ==
    Cardinality({ g \in SegmentIds :
                    /\ segments[g].exists
                    /\ segments[g].speaker_id = s
                    /\ ~segments[g].is_deleted })

\* a request answered with an error leaves the tables as they were
Refuse(call, status) ==
    /\ ydb' = [ydb EXCEPT !.last = [call EXCEPT !.status = status]]
    /\ UNCHANGED <<job, notYt>>

\* a request that committed
Commit(call, speakers, segments) ==
    /\ ydb' = [speakers |-> speakers, segments |-> segments,
               last |-> [call EXCEPT !.status = 200]]
    /\ UNCHANGED <<job, notYt>>

\* reassign_segment: the segment is given to new_speaker, and the counts of
\* the old and of the new speaker are taken from queries that do not see
\* the change
ReassignSegment(g, new) ==
    LET asked == [NoCall EXCEPT !.op = "reassign_segment", !.segment_id = g,
                                !.speaker_id = new]
        seg == ydb.segments[g]
        old == seg.speaker_id
        call == [asked EXCEPT !.touched = {old, new} \ {None}]
        segments == [ydb.segments EXCEPT ![g].speaker_id = new]
        counted == [s \in SpeakerIds |->
                      IF ydb.speakers[s].exists /\ s \in {old, new}
                      THEN [ydb.speakers[s] EXCEPT
                              !.segment_count = CountActive(ydb.segments, s)]
                      ELSE ydb.speakers[s]]
    IN IF ~seg.exists \/ ~ydb.speakers[new].exists THEN Refuse(asked, 404)
       ELSE Commit(call, counted, segments)

\* delete_segment: the segment goes to the trash, and the count of its
\* speaker is taken from a query that does not see the change
DeleteSegment(g) ==
    LET asked == [NoCall EXCEPT !.op = "delete_segment", !.segment_id = g]
        seg == ydb.segments[g]
        speaker_id == seg.speaker_id
        call == [asked EXCEPT !.touched = {speaker_id} \ {None}]
        segments == [ydb.segments EXCEPT
                        ![g].deleted_from_speaker_id = speaker_id,
                        ![g].is_deleted = TRUE,
                        ![g].speaker_id = None]
        counted == [s \in SpeakerIds |->
                      IF ydb.speakers[s].exists /\ s = speaker_id
                      THEN [ydb.speakers[s] EXCEPT
                              !.segment_count = CountActive(ydb.segments, s)]
                      ELSE ydb.speakers[s]]
    IN IF ~seg.exists THEN Refuse(asked, 404)
       ELSE Commit(call, counted, segments)

\* restore_segment: a segment of the trash goes back to the speaker it was
\* deleted from, whose count is the number of its active segments plus one;
\* 404 when the segment is not in the trash, 400 when that speaker is gone
RestoreSegment(g) ==
    LET asked == [NoCall EXCEPT !.op = "restore_segment", !.segment_id = g]
        seg == ydb.segments[g]
        original_speaker_id == seg.deleted_from_speaker_id
        call == [asked EXCEPT !.touched = {original_speaker_id}]
        segments == [ydb.segments EXCEPT
                        ![g].speaker_id = original_speaker_id,
                        ![g].is_deleted = FALSE,
                        ![g].deleted_from_speaker_id = None]
        counted == [ydb.speakers EXCEPT
                      ![original_speaker_id].segment_count =
                          CountActive(ydb.segments, original_speaker_id) + 1]
    IN IF ~seg.exists \/ ~seg.is_deleted THEN Refuse(asked, 404)
       ELSE IF original_speaker_id = None
               \/ ~ydb.speakers[original_speaker_id].exists
       THEN Refuse(asked, 400)
       ELSE Commit(call, counted, segments)

\* merge_speakers: the active segments of the source are given to the
\* target in the session; the count of the target is taken from a query
\* that does not see them; db.delete(source) loads source.segments, the
\* rows whose speaker_id is still the source, and marks them deleted with
\* it (cascade="all, delete-orphan"); the commit deletes them
MergeSpeakers(source, target) ==
    LET asked == [NoCall EXCEPT !.op = "merge_speakers", !.source = source,
                                !.target = target]
        call == [asked EXCEPT !.touched = {source, target}]
        segments == [g \in SegmentIds |->
                        IF ydb.segments[g].exists
                           /\ ydb.segments[g].speaker_id = source
                        THEN NoSegment
                        ELSE ydb.segments[g]]
        counted == [ydb.speakers EXCEPT
                      ![target].segment_count = CountActive(ydb.segments, target)]
        speakers == [counted EXCEPT ![source] = NoSpeaker]
    IN IF ~ydb.speakers[source].exists \/ ~ydb.speakers[target].exists
       THEN Refuse(asked, 404)
       ELSE Commit(call, speakers, segments)

\* delete_speaker_segments: every active segment of the speaker goes to the
\* trash and its count is set to 0
DeleteSpeakerSegments(speaker_id) ==
    LET asked == [NoCall EXCEPT !.op = "delete_speaker_segments",
                                !.speaker_id = speaker_id]
        call == [asked EXCEPT !.touched = {speaker_id}]
        segments == [g \in SegmentIds |->
                        IF ydb.segments[g].exists
                           /\ ydb.segments[g].speaker_id = speaker_id
                           /\ ~ydb.segments[g].is_deleted
                        THEN [ydb.segments[g] EXCEPT
                                !.deleted_from_speaker_id = speaker_id,
                                !.is_deleted = TRUE,
                                !.speaker_id = None]
                        ELSE ydb.segments[g]]
        counted == [ydb.speakers EXCEPT ![speaker_id].segment_count = 0]
    IN IF ~ydb.speakers[speaker_id].exists THEN Refuse(asked, 404)
       ELSE Commit(call, counted, segments)

NextYt ==
    \/ StartDiarization
    \/ DeleteProject
    \/ JobLookup
    \/ \E ok \in BOOLEAN : UpdateProjectStatus(ok)
    \/ JobFail
    \/ JobRaise
    \/ \E label \in [SegmentIds -> SpeakerIds], short \in SUBSET SegmentIds :
          JobSave(label, short)
    \/ JobComplete
    \/ JobExcept
    \/ \E g \in SegmentIds, new \in SpeakerIds : ReassignSegment(g, new)
    \/ \E g \in SegmentIds : DeleteSegment(g)
    \/ \E g \in SegmentIds : RestoreSegment(g)
    \/ \E source \in SpeakerIds, target \in SpeakerIds :
          MergeSpeakers(source, target)
    \/ \E speaker_id \in SpeakerIds : DeleteSpeakerSegments(speaker_id)

SpecYoutube == InitAtRest /\ [][NextYt]_vars

----------------------------------------------------------------------------
(* Properties of the augmentation and of the split *)

DoneApply(w) == th[w].op = "apply" /\ th[w].pc = "done"

DoneSplit(w) == th[w].op = "split" /\ th[w].pc = "done"

\* a completed three-way split
DoneThreeWay(w) == DoneSplit(w) /\ th[w].result.kind = "split"

InImage(p, size) ==
    /\ 0 <= p[1] /\ p[1] <= (size[1] - 1) * Milli
    /\ 0 <= p[2] /\ p[2] <= (size[2] - 1) * Milli

\* C1: when _apply_augmentation returns, every returned landmark has
\* 0 <= x <= orig_w - 1 and 0 <= y <= orig_h - 1, for every configuration,
\* every state of the generator and every input landmark.
C1_ClampInvariant ==
    \A w \in Threads :
        DoneApply(w) =>
            \A i \in 1..Len(th[w].cur) : InImage(th[w].cur[i], th[w].size)

\* C1 witness: an invocation in which no randomized step changed the
\* landmarks returns a landmark that came in outside the image.
C1_Witness ==
    \E w \in Threads :
        /\ DoneApply(w)
        /\ th[w].cfg = EmptyConfig
        /\ \E i \in 1..Len(th[w].lms) :
              /\ ~InImage(th[w].lms[i], th[w].size)
              /\ InImage(th[w].cur[i], th[w].size)

\* C2: the train, val and test groups of a split are pairwise disjoint and
\* their union is the set of input items (no item lost, none repeated).
C2_Partition ==
    \A w \in Threads :
        DoneThreeWay(w) =>
            LET r == th[w].result
                tr == SeqToSet(r.train)
                va == SeqToSet(r.val)
                te == SeqToSet(r.test)
            IN /\ tr \cap va = {}
               /\ tr \cap te = {}
               /\ va \cap te = {}
               /\ tr \cup va \cup te = 1..th[w].n
               /\ Len(r.train) + Len(r.val) + Len(r.test) = th[w].n

\* C2 witness: a split whose three groups are all non-empty.
C2_Witness ==
    \E w \in Threads :
        /\ DoneThreeWay(w)
        /\ th[w].result.train # <<>>
        /\ th[w].result.val # <<>>
        /\ th[w].result.test # <<>>

\* C3 as claimed: |train| = floor(n * trainRatio), |val| = floor(n * valRatio)
\* and |test| = n - |train| - |val| for every pair of ratios in [0, 1].
C3_SizesAsClaimed ==
    \A w \in Threads :
        DoneThreeWay(w) =>
            LET r == th[w].result
                n == th[w].n
            IN /\ Len(r.train) = (n * th[w].tr) \div 100
               /\ Len(r.val) = (n * th[w].vr) \div 100
               /\ Len(r.test) = n - (n * th[w].tr) \div 100 - (n * th[w].vr) \div 100

\* C3 amended: |train| = floor(n * trainRatio), |val| is the smaller of
\* floor(n * valRatio) and n - |train|, |test| = n - |train| - |val|; for
\* n = 10 and ratios 0.70, 0.15 the sizes are 7, 1 and 2.
C3_SizesAmended ==
    \A w \in Threads :
        DoneThreeWay(w) =>
            LET r == th[w].result
                n == th[w].n
                floorVal == (n * th[w].vr) \div 100
            IN /\ Len(r.train) = (n * th[w].tr) \div 100
               /\ Len(r.val) = IF floorVal < n - Len(r.train)
                               THEN floorVal ELSE n - Len(r.train)
               /\ Len(r.test) = n - Len(r.train) - Len(r.val)
               /\ (n = 10 /\ th[w].tr = 70 /\ th[w].vr = 15) =>
                     /\ Len(r.train) = 7
                     /\ Len(r.val) = 1
                     /\ Len(r.test) = 2

\* C3 witness: the split of 10 items with ratios 0.70 and 0.15.
C3_Witness ==
    \E w \in Threads :
        /\ DoneThreeWay(w)
        /\ th[w].n = 10 /\ th[w].tr = 70 /\ th[w].vr = 15
        /\ Len(th[w].result.train) = 7

\* the groups a split returns when nothing else touches the generator
\* between its seeding and its shuffle
SplitAlone(n, tr, vr, seed) ==
    SplitResult(Shuffle(Keys(n), SeedState(seed)).keys, tr, vr)

\* C4: the groups returned by a split are determined by its items, ratios
\* and seed alone: whatever the generator state the call found (whatever
\* was drawn before it), two calls with the same arguments return the same
\* train, val and test groups.
C4_SplitDeterministic ==
    \A w \in Threads :
        DoneThreeWay(w) =>
            th[w].result = SplitAlone(th[w].n, th[w].tr, th[w].vr, th[w].seed)

\* C4 witness: a split that shuffled at least three items and was called
\* with the generator in another state than the one its seed gives.
C4_Witness ==
    \E w \in Threads :
        /\ DoneThreeWay(w)
        /\ th[w].n >= MinSplitImages
        /\ th[w].rng0 # SeedState(th[w].seed)
        /\ th[w].result.train # PySlice(Keys(th[w].n), 0, Len(th[w].result.train))

\* C5: for 0, 1 or 2 items no three-way split is produced.
C5_NoSplitBelowThree ==
    \A w \in Threads :
        (DoneSplit(w) /\ th[w].n < MinSplitImages) => th[w].result.kind # "split"

\* C5 witness: the export path falls back to one undivided group.
C5_Witness ==
    \E w \in Threads :
        /\ DoneSplit(w)
        /\ th[w].path = "export"
        /\ th[w].n \in 1..(MinSplitImages - 1)
        /\ th[w].result.kind = "all"
        /\ th[w].result.all = Keys(th[w].n)

\* C8: a split call leaves the state a later apply or split depends on
\* unchanged: when it returns, the process-wide generator is in the state
\* the call found it in.
C8_SplitLeavesGeneratorUnchanged ==
    \A w \in Threads : DoneThreeWay(w) => rng = th[w].rng0

\* the landmarks apply returns when nothing else draws from the generator
\* between its own draws, from generator state s0
ApplyAlone(cfg, size, lms, s0) ==
    LET u1 == IF RotationEnabled(cfg) THEN NextRng(s0) ELSE s0
        rot(p) == RotatePoint(p, Radians(Uniform(0 - cfg.rotation_range * Milli,
                                                 cfg.rotation_range * Milli, u1)),
                              size[1], size[2])
        l1 == IF RotationEnabled(cfg) THEN MapPoints(rot, lms) ELSE lms
        u2 == IF ScaleEnabled(cfg) THEN NextRng(u1) ELSE u1
        sc(p) == ScalePoint(p, Uniform(cfg.scale_range[1], cfg.scale_range[2], u2),
                            size[1], size[2])
        l2 == IF ScaleEnabled(cfg) THEN MapPoints(sc, l1) ELSE l1
        u3 == IF BrightnessEnabled(cfg) THEN NextRng(u2) ELSE u2
        u4 == IF ContrastEnabled(cfg) THEN NextRng(u3) ELSE u3
        u5 == NextRng(u4)
        fl(p) == FlipPoint(p, size[1])
        l5 == IF BelowProb(u5, cfg.horizontal_flip_prob) THEN MapPoints(fl, l2) ELSE l2
        cl(p) == ClampPoint(p, size[1], size[2])
    IN MapPoints(cl, l5)

\* C9: an invocation that runs concurrently with another returns what it
\* returns when it runs alone, under every interleaving.
C9_ConcurrentAsAlone ==
    \A w \in Threads :
        /\ DoneApply(w) =>
              th[w].cur = ApplyAlone(th[w].cfg, th[w].size, th[w].lms, th[w].rng0)
        /\ DoneThreeWay(w) =>
              th[w].result = SplitAlone(th[w].n, th[w].tr, th[w].vr, th[w].seed)

\* the order of the randomized steps
StepOrder == <<"rotation", "scale", "brightness", "contrast", "flip">>

\* C10 as claimed: every apply call makes five draws, one per step, in the
\* order rotation, scale, brightness, contrast, flip, so a step's draw has
\* the same position for every configuration.
C10_FiveDrawsFixedPositions ==
    \A w \in Threads : DoneApply(w) => th[w].draws = StepOrder

\* the steps that draw under a configuration, in step order
ExpectedDraws(cfg) ==
    LET draws(step) ==
            \/ step = "rotation" /\ cfg.rotation_range > 0
            \/ step = "scale" /\ cfg.scale_range # <<1000, 1000>>
            \/ step = "brightness" /\ cfg.brightness_range # <<1000, 1000>>
            \/ step = "contrast" /\ cfg.contrast_range # <<1000, 1000>>
            \/ step = "flip"
    IN SelectSeq(StepOrder, draws)

RECURSIVE Advance(_, _)
Advance(s, k) == IF k = 0 THEN s ELSE Advance((5 * s + 3) % RngMod, k - 1)

\* C10 amended: an apply call draws once for each step its configuration
\* enables (rotation_range > 0; a scale, brightness or contrast range other
\* than (1.0, 1.0)) and always for the flip decision, in the order rotation,
\* scale, brightness, contrast, flip; a disabled step draws nothing, and
\* the generator advances by exactly these draws.
C10_EnabledDrawsInOrder ==
    \A w \in Threads :
        DoneApply(w) =>
            /\ th[w].draws = ExpectedDraws(th[w].cfg)
            /\ rng = Advance(th[w].rng0, Len(ExpectedDraws(th[w].cfg)))

\* C10 witness: a call whose configuration disables the rotation, so that
\* the scale draw comes first.
C10_Witness ==
    \E w \in Threads :
        /\ DoneApply(w)
        /\ th[w].draws = <<"scale", "brightness", "contrast", "flip">>

\* C11: the landmarks an apply call returns are determined by the image
\* size, the landmarks, the configuration and the state the generator was in
\* when the call began: two calls given the same four return identical
\* landmark coordinates, whatever ran before them.
C11_ApplyDeterministic ==
    DoneApply(MainThread) =>
        LET t == th[MainThread]
        IN t.cur = ApplyAlone(t.cfg, t.size, t.lms, t.rng0)

\* C11 witness: a call in which all five steps drew and which moved two
\* landmarks.
C11_Witness ==
    /\ DoneApply(MainThread)
    /\ th[MainThread].draws = StepOrder
    /\ Len(th[MainThread].lms) = 2
    /\ \A i \in 1..2 : th[MainThread].cur[i] # th[MainThread].lms[i]

\* C12: no step of an apply call changes the landmark list the caller
\* passed in (a copy of the stored annotation, which the call never sees),
\* and the brightness and contrast steps leave the working landmark
\* coordinates as they found them.
C12_InputsNotMutated ==
    [][\A w \in Threads :
          (th[w].op = "apply" /\ th'[w].op = "apply") =>
              /\ th'[w].lms = th[w].lms
              /\ th[w].pc \in {"brightness", "contrast"} =>
                    th'[w].cur = th[w].cur]_vars

\* C12 witness: a returned call in which the brightness and the contrast
\* step drew and whose result differs from the list that was passed in.
C12_Witness ==
    \E w \in Threads :
        /\ DoneApply(w)
        /\ th[w].draws = StepOrder
        /\ th[w].lms # <<>>
        /\ th[w].cur # th[w].lms

----------------------------------------------------------------------------
(* Properties of single steps *)

\* the float operation on exact operands whose exact result is v loses
\* nothing
Exact(v) == FloatRound(v) = v

Abs(v) == IF v < 0 THEN 0 - v ELSE v

\* the landmark has been flipped k times and by nothing else
Flipped(k) == fs.pc = "ready" /\ fs.op = "flip" /\ fs.n = k

\* the rotation step has sampled angle 0
RotatedByZero == fs.pc = "ready" /\ fs.op = "rotation" /\ fs.angle = 0

\* C13 as claimed: the flip step maps x to width - x and leaves y, and
\* two flips restore every landmark coordinate exactly.
C13_FlipInvolutionExact ==
    /\ Flipped(1) => fs.q = << FloatOfInt(fs.size[1]) - fs.p[1], fs.p[2] >>
    /\ Flipped(2) => fs.q = fs.p

\* C13 amended: the flip step maps x to the float nearest width - x and
\* leaves y; two flips restore y always and restore x exactly whenever
\* width - x is itself a float (as it is for every whole-number x);
\* otherwise the restored x lies within one unit in the last place of
\* width - x.
C13_FlipInvolutionRounded ==
    LET width == FloatOfInt(fs.size[1])
        x == fs.p[1]
    IN /\ (Flipped(1) \/ Flipped(2)) => fs.q[2] = fs.p[2]
       /\ Flipped(1) =>
             /\ 2 * Abs(fs.q[1] - (width - x)) <= Ulp(Abs(width - x))
             /\ Exact(width - x) => fs.q[1] = width - x
       /\ Flipped(2) =>
             /\ Exact(width - x) => fs.q[1] = x
             /\ x % FloatUnit = 0 => fs.q[1] = x
             /\ Abs(fs.q[1] - x) <= Ulp(Abs(width - x))

\* C13 witness: x = 1.5, flipped twice and restored exactly.
C13_Witness ==
    /\ Flipped(2)
    /\ fs.p[1] = FloatUnit + FloatUnit \div 2
    /\ fs.q = fs.p

\* C14 as claimed: when the rotation step samples angle 0, the landmark
\* leaves the step equal to the landmark that entered it.
C14_ZeroRotationExact == RotatedByZero => fs.q = fs.p

\* C14 amended: when the rotation step samples angle 0, a coordinate leaves
\* the step equal to the one that entered whenever its offset from the
\* image centre (x - cx, y - cy) is itself a float, as it is for every
\* whole-number coordinate; otherwise it differs from the one that entered
\* by at most one unit in the last place of that offset.
C14_ZeroRotationRounded ==
    LET cx == FloatRoundScaled(fs.size[1] * FloatUnit, 2)
        cy == FloatRoundScaled(fs.size[2] * FloatUnit, 2)
    IN RotatedByZero =>
          /\ Exact(fs.p[1] - cx) => fs.q[1] = fs.p[1]
          /\ Exact(fs.p[2] - cy) => fs.q[2] = fs.p[2]
          /\ fs.p[1] % FloatUnit = 0 => fs.q[1] = fs.p[1]
          /\ Abs(fs.q[1] - fs.p[1]) <= Ulp(Abs(fs.p[1] - cx))
          /\ Abs(fs.q[2] - fs.p[2]) <= Ulp(Abs(fs.p[2] - cy))

\* C14 witness: a landmark off the centre with a fractional x leaves the
\* rotation by angle 0 as it entered.
C14_Witness ==
    /\ RotatedByZero
    /\ fs.p[1] = 10 * FloatUnit + 1
    /\ fs.q = fs.p

----------------------------------------------------------------------------
(* Properties of the evaluation *)

\* the evaluation has ended after loading the CSV without an error
EndedLoaded ==
    /\ ev.pc = "done"
    /\ ev.metrics.kind # "empty"
    /\ load_annotations(ev.rows).raised = "none"

\* the evaluation has returned a report
Reported == ev.pc = "done" /\ ev.metrics.kind = "report"

\* a / b <= c / d, a / b = c / d for quotients with positive denominators
RatLeq(v, w) == v.num * w.den <= w.num * v.den

RatEq(v, w) == v.num * w.den = w.num * v.den

\* C15: an evaluation over no pairs signals EmptyMetricsInput, returns no
\* report and reports no mre, std or SDR value.
C15_EmptySignalled ==
    (EndedLoaded /\ ev.n = 0) =>
        /\ ev.raised = "EmptyMetricsInput"
        /\ ev.metrics = NoMetrics
        /\ ev.printed = NoCalc

\* C15 witness: the evaluation of no image has printed nan for the mre and
\* for every SDR and has ended in ValueError.
C15_Witness ==
    /\ EndedLoaded /\ ev.n = 0
    /\ ev.raised = "ValueError"
    /\ IsNaN(ev.printed.mre)
    /\ \A k \in 1..Len(Thresholds) : IsNaN(ev.printed.sdr[k])

\* a row whose image exists and in which the landmark of some slot is
\* absent: its cells are empty, or hold the float that stands for no value
AbsentLandmark(rows) ==
    \E i \in 1..Len(rows) :
        rows[i].exists /\ \E k \in Slots : rows[i].cells[k] \in {"", "nan"}

\* C17: when a landmark of an image that is to be encoded is absent, the
\* caller is signalled an error (LandmarkMissing; an exception of any name
\* is accepted) and no heatmap is encoded for the absent landmark.
C17_AbsentSignalled ==
    (ev.pc = "done" /\ ev.metrics.kind # "empty" /\ AbsentLandmark(ev.rows)) =>
        /\ ev.raised # "none"
        /\ ev.nan_encoded = 0

\* C17 witness: the evaluation of one image whose first landmark is nan has
\* encoded a heatmap for it and returned a report.
C17_Witness ==
    /\ ev.pc = "done"
    /\ Len(ev.rows) = 1
    /\ ev.rows[1].cells[0] = "nan"
    /\ ev.nan_encoded = 1
    /\ ev.raised = "none"
    /\ ev.metrics.kind = "report"

\* C18: the per_landmark_mre mapping of a report has exactly NUM_LANDMARKS
\* entries and its keys are the landmark indices 1..NUM_LANDMARKS.
C18_KeysOneToN ==
    Reported =>
        /\ Cardinality(DOMAIN ev.metrics.per_landmark_mre) = NUM_LANDMARKS
        /\ DOMAIN ev.metrics.per_landmark_mre =
              { ToString(i) : i \in 1..NUM_LANDMARKS }

\* C18 witness: a report whose per_landmark_mre has the key "0".
C18_Witness ==
    /\ Reported
    /\ "0" \in DOMAIN ev.metrics.per_landmark_mre
    /\ ~IsNaN(ev.metrics.per_landmark_mre["0"])

\* the number of errors strictly below t pixels
CountBelow(errors, t) ==
    Cardinality({ i \in 1..Len(errors) : errors[i] < t * Milli })

\* C19: for a non-empty list of errors and each threshold t of the report,
\* SDR@t = 100 * (number of errors strictly less than t) / (number of
\* errors); an error equal to t is not counted.
C19_SdrStrictlyBelow ==
    Reported =>
        \A k \in 1..Len(Thresholds) :
            LET t == Thresholds[k]
                n == Len(ev.total_errors)
            IN /\ n > 0
               /\ ~IsNaN(ev.metrics.sdr[SdrKey(t)])
               /\ RatEq(ev.metrics.sdr[SdrKey(t)],
                        Rat(100 * CountBelow(ev.total_errors, t), n))

\* C19 witness: a report over four errors of which one is exactly 2 pixels
\* and one is 0: SDR@2 is 25 and SDR@4 is 50.
C19_Witness ==
    /\ Reported
    /\ Len(ev.total_errors) = 4
    /\ \E i \in 1..4 : ev.total_errors[i] = 2 * Milli
    /\ RatEq(ev.metrics.sdr["sdr_2px"], Rat(25, 1))
    /\ RatEq(ev.metrics.sdr["sdr_4px"], Rat(50, 1))

\* C20: in every report SDR@t1 <= SDR@t2 for thresholds t1 < t2, and every
\* SDR lies in [0, 100].
C20_SdrMonotone ==
    Reported =>
        /\ \A k1, k2 \in 1..Len(Thresholds) :
              Thresholds[k1] < Thresholds[k2] =>
                  RatLeq(ev.metrics.sdr[SdrKey(Thresholds[k1])],
                         ev.metrics.sdr[SdrKey(Thresholds[k2])])
        /\ \A k \in 1..Len(Thresholds) :
              LET v == ev.metrics.sdr[SdrKey(Thresholds[k])]
              IN v.den > 0 /\ 0 <= v.num /\ v.num <= 100 * v.den

\* C20 witness: a report in which SDR@2 < SDR@4 < SDR@10 = SDR@20 = 100.
C20_Witness ==
    /\ Reported
    /\ ~RatLeq(ev.metrics.sdr["sdr_4px"], ev.metrics.sdr["sdr_2px"])
    /\ ~RatLeq(ev.metrics.sdr["sdr_10px"], ev.metrics.sdr["sdr_4px"])
    /\ RatEq(ev.metrics.sdr["sdr_20px"], Rat(100, 1))

\* the evaluation of a single image in which the predicted cell of every
\* landmark is the ground-truth cell
SingleCoinciding ==
    /\ ev.n = 1
    /\ Len(ev.pairs) = 1
    /\ \A i \in Slots : ev.pairs[1][i] = <<0, 0>>

\* C23: when the evaluated set is a single sample whose predicted and
\* ground-truth coordinates coincide, the report has MRE = 0 and std = 0
\* (and the mean of each landmark, a list of one error, is 0).
C23_ZeroErrorMetrics ==
    (ev.pc = "done" /\ SingleCoinciding) =>
        /\ Reported
        /\ ~IsNaN(ev.metrics.mre) /\ ev.metrics.mre.num = 0
        /\ ~IsNaN(ev.metrics.std) /\ ev.metrics.std.num = 0
        /\ \A i \in Slots :
              LET v == ev.metrics.per_landmark_mre[ToString(i)]
              IN Len(ev.landmark_errors[i]) = 1 /\ ~IsNaN(v) /\ v.num = 0

\* C23 witness: the report of a single image whose cells coincide, with
\* every SDR at 100.
C23_Witness ==
    /\ Reported /\ SingleCoinciding
    /\ ev.metrics.test_images = 1
    /\ ev.metrics.mre = Rat(0, NUM_LANDMARKS)
    /\ RatEq(ev.metrics.sdr["sdr_2px"], Rat(100, 1))

----------------------------------------------------------------------------
(* Properties of the training log *)

\* the val_loss values logged so far that are not None
LoggedLosses ==
    { tl.epochs[i].val_loss : i \in { j \in 1..Len(tl.epochs) :
                                         tl.epochs[j].val_loss # None } }

\* the minimum of a set of losses: the least number, nan when there is none
MinLoss(vals) ==
    IF vals \subseteq {NanLoss} THEN NanLoss
    ELSE CHOOSE v \in vals \ {NanLoss} : \A u \in vals \ {NanLoss} : v <= u

\* the position of the first entry of a sequence equal to v
FirstAt(x, v) == CHOOSE i \in 1..Len(x) : x[i] = v /\ \A j \in 1..(i - 1) : x[j] # v

\* C29: best_val_loss is the minimum of the val_loss values logged so far
\* that are not None and best_epoch is the epoch of the earliest call that
\* logged it, both None when there is none; in train_model the weights on
\* disk are those of the earliest epoch with the lowest loss so far.
C29_BestIsMinimum ==
    /\ LoggedLosses = {} => (tl.best_val_loss = None /\ tl.best_epoch = None)
    /\ LoggedLosses # {} =>
          /\ tl.best_val_loss = MinLoss(LoggedLosses)
          /\ tl.best_epoch =
                tl.epochs[FirstAt([i \in 1..Len(tl.epochs) |-> tl.epochs[i].val_loss],
                                  MinLoss(LoggedLosses))].epoch
    /\ (tl.pc = "train" /\ tl.losses # <<>>) =>
          /\ tl.checkpoint # None
          /\ tl.checkpoint =
                FirstAt(tl.losses, MinLoss({ tl.losses[i] : i \in 1..Len(tl.losses) }))

\* C29 witness: the first validation loss of a training run was nan and
\* the second a number: the log keeps nan as the best loss and epoch 1 as
\* the best epoch, while the weights on disk are those of epoch 2.
C29_Witness ==
    /\ tl.pc = "train" /\ tl.has_val
    /\ tl.losses = <<NanLoss, 1>>
    /\ tl.best_val_loss = NanLoss
    /\ tl.best_epoch = 1
    /\ tl.checkpoint = 2

----------------------------------------------------------------------------
(* Properties of the codec *)

\* the grid has no cell, or holds a value that is not a finite number
InvalidGrid(g) ==
    \/ Flatten(g) = <<>>
    \/ \E i \in 1..Len(Flatten(g)) : Flatten(g)[i] = NanCell

\* C16: whenever the decoded heatmap holds a value that is not a finite
\* number, or has zero area, the decoder signals an error to its caller
\* (InvalidHeatmap; an exception of any name is accepted) and returns no
\* coordinate.
C16_InvalidSignalled ==
    (cpc = "decoded" /\ InvalidGrid(heatmap)) =>
        /\ decoded.raised # "none"
        /\ decoded.x = NoDecoded.x /\ decoded.y = NoDecoded.y

\* C16 witness: heatmap_to_coordinates has returned the cell of the first
\* nan of its heatmap, with confidence nan and no error.
C16_Witness ==
    /\ cpc = "decoded"
    /\ decoded.by = "predictor"
    /\ decoded.raised = "none"
    /\ heatmap[1][1] # NanCell /\ heatmap[1][2] = NanCell
    /\ decoded.x = 1 /\ decoded.y = 0
    /\ decoded.conf = NanCell

\* the cell (row r, column c), 0-based, holds the maximum of grid g and no
\* cell before it in row-major order does
FirstMaxCell(g, r, c) ==
    /\ r \in 0..(Height(g) - 1) /\ c \in 0..(Width(g) - 1)
    /\ \A r2 \in 0..(Height(g) - 1), c2 \in 0..(Width(g) - 1) :
          /\ g[r2 + 1][c2 + 1] <= g[r + 1][c + 1]
          /\ (r2 < r \/ (r2 = r /\ c2 < c)) => g[r2 + 1][c2 + 1] < g[r + 1][c + 1]

Predicted ==
    /\ cpc = "decoded" /\ decoded.by = "predictor" /\ decoded.raised = "none"
    /\ ~InvalidGrid(heatmap)

\* C21 as stated: heatmap_to_coordinates locates the maximal cell as (column,
\* row), x the column index and y the row index, and returns a confidence
\* equal to that cell's value in the heatmap it was given.
C21_ConfidenceOfGivenHeatmap ==
    Predicted =>
        /\ decoded.x \in 0..(Width(logits) - 1)
        /\ decoded.y \in 0..(Height(logits) - 1)
        /\ \A r \in 1..Height(logits), c \in 1..Width(logits) :
              logits[r][c] <= logits[decoded.y + 1][decoded.x + 1]
        /\ decoded.conf = logits[decoded.y + 1][decoded.x + 1]

\* C21 amended: heatmap_to_coordinates applies the sigmoid to the heatmap it
\* was given and locates the maximal cell of the result as (column, row), x
\* the column index and y the row index; the confidence is that cell's value
\* after the sigmoid, the sigmoid of its value in the heatmap given.
C21_ConfidenceOfSigmoid ==
    Predicted =>
        /\ decoded.x \in 0..(Width(logits) - 1)
        /\ decoded.y \in 0..(Height(logits) - 1)
        /\ \A r \in 1..Height(heatmap), c \in 1..Width(heatmap) :
              heatmap[r][c] <= heatmap[decoded.y + 1][decoded.x + 1]
        /\ decoded.conf = heatmap[decoded.y + 1][decoded.x + 1]
        /\ decoded.conf = Sigmoid(logits[decoded.y + 1][decoded.x + 1])

\* C21 witness: the maximum of the given heatmap is 0 in column 2 of row 1,
\* and the confidence returned is one half.
C21_Witness ==
    /\ Predicted
    /\ decoded.x = 2 /\ decoded.y = 1
    /\ logits[2][3] = 0
    /\ 2 * decoded.conf = FixOne

\* C30: every coordinate heatmap_to_coordinates returns lies inside the
\* original image, 0 <= x < orig_w and 0 <= y < orig_h, and is computed per
\* axis: x = column / w * orig_w and y = row / h * orig_h.
C30_ScaledInsideOriginal ==
    (cpc = "decoded" /\ decoded.by = "predictor" /\ decoded.raised = "none") =>
        /\ 0 <= decoded.x_orig
        /\ decoded.x_orig < FloatOfInt(decoded.size[1])
        /\ 0 <= decoded.y_orig
        /\ decoded.y_orig < FloatOfInt(decoded.size[2])
        /\ decoded.x_orig =
              FloatMul(FloatDiv(FloatOfInt(decoded.x), FloatOfInt(Width(heatmap))),
                       FloatOfInt(decoded.size[1]))
        /\ decoded.y_orig =
              FloatMul(FloatDiv(FloatOfInt(decoded.y), FloatOfInt(Height(heatmap))),
                       FloatOfInt(decoded.size[2]))

\* C30 witness: the peak in the last column and the last row of the grid,
\* for an image wider than high: x and y are scaled by different factors
\* and stay below the width and the height.
C30_Witness ==
    /\ cpc = "decoded" /\ decoded.by = "predictor" /\ decoded.raised = "none"
    /\ decoded.x = Width(heatmap) - 1 /\ decoded.y = Height(heatmap) - 1
    /\ decoded.size[1] > decoded.size[2]
    /\ decoded.x_orig > decoded.y_orig
    /\ decoded.y_orig > 0

\* the encoded coordinate lies in [0, width) x [0, height)
EncodedInsideGrid ==
    /\ 0 <= enc.x /\ enc.x < 2 * enc.shape[1]
    /\ 0 <= enc.y /\ enc.y < 2 * enc.shape[2]

\* a heatmap has been encoded from a coordinate inside the grid
EncodedInside == cpc = "heatmap" /\ enc # NoEnc /\ EncodedInsideGrid

\* four times the squared distance of cell (row r, column c), 1-based, from
\* the encoded coordinate
Dist2(r, c) ==
    (2 * (c - 1) - enc.x) * (2 * (c - 1) - enc.x)
    + (2 * (r - 1) - enc.y) * (2 * (r - 1) - enc.y)

\* the cells of the grid nearest the encoded coordinate
NearestCells ==
    { rc \in (1..enc.shape[2]) \X (1..enc.shape[1]) :
        \A r2 \in 1..enc.shape[2], c2 \in 1..enc.shape[1] :
            Dist2(rc[1], rc[2]) <= Dist2(r2, c2) }

\* C22 as stated: for every coordinate inside the grid, integer or not, the
\* encoded heatmap takes its maximum at the cell nearest the coordinate and
\* the maximum equals 1.
C22_PeakIsOne ==
    EncodedInside =>
        /\ \A rc \in NearestCells :
              heatmap[rc[1]][rc[2]] = MaxValue(Flatten(heatmap))
        /\ MaxValue(Flatten(heatmap)) = FixOne

\* C22 amended: for every coordinate inside the grid the encoded heatmap
\* takes its maximum at the cells nearest the coordinate; the maximum is 1
\* when the coordinate lies on a cell and below 1 when it lies midway
\* between cells.
C22_PeakAtNearestCell ==
    EncodedInside =>
        /\ \A rc \in NearestCells :
              heatmap[rc[1]][rc[2]] = MaxValue(Flatten(heatmap))
        /\ MaxValue(Flatten(heatmap)) <= FixOne
        /\ MaxValue(Flatten(heatmap)) = FixOne <=>
              (enc.x % 2 = 0 /\ enc.y % 2 = 0)

\* C22 witness: a heatmap encoded with the largest sigma from a coordinate
\* midway between two columns, whose two nearest cells hold a maximum
\* below 1.
C22_Witness ==
    /\ EncodedInside
    /\ enc.sigma = MaxSigma
    /\ enc.x = 3 /\ enc.y = 2
    /\ NearestCells = { <<2, 2>>, <<2, 3>> }
    /\ heatmap[2][2] = heatmap[2][3]
    /\ heatmap[2][2] < FixOne

\* C7: for sigma >= 1 and a coordinate inside the grid, decoding the encoded
\* heatmap returns a cell whose column and row are each within one cell of
\* the coordinate's x and y.
C7_RoundTripWithinOneCell ==
    (cpc = "decoded" /\ enc # NoEnc /\ enc.sigma >= 1 /\ EncodedInsideGrid) =>
        /\ Abs(2 * decoded.x - enc.x) <= 2
        /\ Abs(2 * decoded.y - enc.y) <= 2

\* C7 witness: a round trip of a coordinate midway between cells, in a
\* column other than its row, with the largest sigma.
C7_Witness ==
    /\ cpc = "decoded" /\ enc # NoEnc /\ EncodedInsideGrid
    /\ enc.sigma > 1
    /\ enc.x % 2 = 1
    /\ decoded.x = 3 /\ decoded.y = 1

----------------------------------------------------------------------------
(* Properties of the youtube_downloader requests and of the job             *)

\* the request answered last changed the tables
Completed(ops) == ydb.last.op \in ops /\ ydb.last.status = 200

\* C24: after every completed reassign_segment, delete_segment,
\* restore_segment, merge_speakers or delete_speaker_segments request, the
\* stored segment_count of each speaker the request touched is the number
\* of non-deleted segments whose speaker_id is that speaker
C24_CountMatchesSegments ==
    Completed({"reassign_segment", "delete_segment", "restore_segment",
               "merge_speakers", "delete_speaker_segments"})
    => \A s \in ydb.last.touched :
          ydb.speakers[s].exists
          => ydb.speakers[s].segment_count = CountActive(ydb.segments, s)

\* a segment has been moved from one existing speaker to another
C24_Witness ==
    /\ Completed({"reassign_segment"})
    /\ Cardinality(ydb.last.touched) = 2
    /\ \A s \in ydb.last.touched : ydb.speakers[s].exists

\* this step is a merge_speakers request that was accepted
MergeStep ==
    /\ ydb' # ydb
    /\ ydb'.last.op = "merge_speakers"
    /\ ydb'.last.status = 200

\* C26: merge_speakers never loses or orphans a segment: every segment
\* that was non-deleted and assigned to the source or the target before an
\* accepted merge still exists, is non-deleted and is assigned to the
\* target after it, and the target speaker still exists
C26_MergeKeepsSegments ==
    [][MergeStep
       => /\ ydb'.speakers[ydb'.last.target].exists
          /\ \A g \in SegmentIds :
                (/\ ydb.segments[g].exists
                 /\ ~ydb.segments[g].is_deleted
                 /\ ydb.segments[g].speaker_id
                       \in {ydb'.last.source, ydb'.last.target})
                => /\ ydb'.segments[g].exists
                   /\ ~ydb'.segments[g].is_deleted
                   /\ ydb'.segments[g].speaker_id = ydb'.last.target]_vars

\* a merge of two different speakers was accepted
C26_Witness ==
    /\ Completed({"merge_speakers"})
    /\ ydb.last.source # ydb.last.target

\* the changes of status a job may make
JobTransitions ==
    { <<"none", "pending">>, <<"pending", "processing">>,
      <<"pending", "error">>, <<"processing", "completed">>,
      <<"processing", "error">> }

\* C27: the status of a job changes only along pending -> processing ->
\* completed or error, or pending -> error, and a status of completed or
\* error never changes again, also when a database status update fails
C27_StatusOnlyForward ==
    [][job'.status # job.status
       => <<job.status, job'.status>> \in JobTransitions]_vars

\* the update of the project row to "completed" has failed
C27_Witness == job.pc = "except" /\ job.status = "completed"

\* segment g is in the trash
InTrash(segments, g) == segments[g].exists /\ segments[g].is_deleted

\* this step is a restore_segment request
RestoreStep == ydb' # ydb /\ ydb'.last.op = "restore_segment"

\* C28: restore_segment right after delete_segment of the same segment
\* gives the segment back to the speaker it was deleted from, with
\* is_deleted false and deleted_from_speaker_id cleared; a segment in the
\* trash has is_deleted true and speaker_id null; restore_segment of a
\* segment that is not in the trash answers 404 and changes nothing
C28_TrashRoundTrip ==
    [][/\ \A g \in SegmentIds :
             InTrash(ydb'.segments, g) => ydb'.segments[g].speaker_id = None
       /\ (/\ RestoreStep
           /\ Completed({"delete_segment"})
           /\ ydb.last.segment_id = ydb'.last.segment_id
           /\ \E s \in ydb.last.touched : ydb.speakers[s].exists)
          => /\ ydb'.last.status = 200
             /\ ydb'.segments[ydb'.last.segment_id].speaker_id
                   \in ydb.last.touched
             /\ ~ydb'.segments[ydb'.last.segment_id].is_deleted
             /\ ydb'.segments[ydb'.last.segment_id].deleted_from_speaker_id
                   = None
       /\ (RestoreStep /\ ~InTrash(ydb.segments, ydb'.last.segment_id))
          => /\ ydb'.last.status = 404
             /\ ydb'.speakers = ydb.speakers
             /\ ydb'.segments = ydb.segments]_vars

\* a segment was deleted from an existing speaker and restored
C28_Witness ==
    /\ Completed({"restore_segment"})
    /\ \E s \in ydb.last.touched :
          /\ ydb.speakers[s].exists
          /\ ydb.segments[ydb.last.segment_id].speaker_id = s

----------------------------------------------------------------------------
(* Properties of the annotation requests                                   *)

\* C25: after any sequence of create_annotation and create_bulk_annotations
\* requests, interleaved or not, the table holds at most one Annotation row
\* for each (image_id, landmark_id) pair, and no lookup of a pair finds
\* more than one row
C25_OneRowPerPair ==
    /\ \A l \in LandmarkIds : RowsOf(l) <= 1
    /\ \A r \in Sessions : adb.req[r].found <= 1

\* two requests have looked the same pair up and neither has written yet
C25_Witness ==
    \E r1 \in Sessions, r2 \in Sessions :
        /\ r1 # r2
        /\ adb.req[r1].pc = "found"
        /\ adb.req[r2].pc = "found"
        /\ adb.req[r1].items[adb.req[r1].i] = adb.req[r2].items[adb.req[r2].i]

====
